---- MODULE Spec2Model ----
(***************************************************************************)
(* Model of the job orchestration layer (services/task_manager.py,         *)
(* services/job_processor.py, api/v1/jobs.py, api/v1/jobs_enhanced.py) and *)
(* of the transformation engine (services/transformers/engine.py).         *)
(*                                                                         *)
(* Scheduling.  Every handler and every task runs on one asyncio event     *)
(* loop.  A coroutine gives the loop back only at a real suspension point. *)
(* update_job_status, ParsingService.* and TransformationService.* are     *)
(* "async def" but call the synchronous store client, so awaiting them     *)
(* never suspends; the only real suspension point of a job body is         *)
(* llm.ainvoke (mapping_service.py:55).  The variable running names the    *)
(* task that holds the loop; handlers run only when running = 0.  Each     *)
(* store write is still a step of its own, because the store is read from  *)
(* outside the process.                                                    *)
(*                                                                         *)
(* Optional values (Python None) are sequences of length <= 1.             *)
(*                                                                         *)
(* The components around them each have a specification of their own over  *)
(* the same variables: the mapping service (services/ai/mapping_service.py)*)
(* in SpecMapping, TransformationRule.apply and infer_data_type in         *)
(* SpecValue, the parser factory in SpecFactory, the text and fixed-width  *)
(* parsers in SpecParse, detect_structure in SpecStruct, transform_file    *)
(* with the output generator factory in SpecTransform, the fixed-width     *)
(* writer in SpecFixed and compare_structures in SpecCompare.  SpecLive is *)
(* the orchestrator under an event loop that runs every ready step.        *)
(***************************************************************************)
EXTENDS Integers, Sequences, FiniteSets, TLC

\* ------------------------------------------------------------------ bounds
MaxJobs        == 1   \* job records created in one behaviour
MaxFiles       == 2   \* length of a batch job's file_ids
MaxCancelCalls == 2   \* calls of BackgroundTaskManager.cancel_job
MaxApiCalls    == 1   \* calls of the jobs.py PATCH / DELETE endpoints
MaxRows        == 2   \* rows handed to transform_data
MaxRules       == 2   \* entries of a mapping configuration

\* ------------------------------------------------------- TaskStatus values
PENDING    == "pending"
PROCESSING == "processing"
COMPLETED  == "completed"
FAILED     == "failed"
CANCELLED  == "cancelled"

None    == << >>
Some(x) == << x >>

Min(a, b) == IF a < b THEN a ELSE b
Max(a, b) == IF a > b THEN a ELSE b

\* Python truthiness of an optional string: None and "" are falsy.
Truthy(opt) == opt # None /\ opt[1] # ""

VARIABLES
  jobs,          \* the "jobs" table: job id -> record
  tasks,         \* the asyncio.Task created for a job id
  active_tasks,  \* BackgroundTaskManager._active_tasks (its key set)
  running,       \* job id of the task holding the event loop, 0 if none
  last,          \* the operation performed by the latest step, its job, its return value
  cancelCalls,   \* number of cancel_job calls so far
  apiCalls,      \* number of PATCH / DELETE calls so far
  rules,             \* TransformationEngine.rules
  validation_errors, \* TransformationEngine.validation_errors
  mapping_config,    \* the mapping configuration handed to the engine
  data,              \* the input rows handed to transform_data
  transformed_data,  \* the list transform_data builds
  data_idx,          \* the loop index idx of transform_data
  epc                \* position of the engine run

jobVars    == << jobs, tasks, active_tasks, running, last, cancelCalls, apiCalls >>
engineVars == << rules, validation_errors, mapping_config, data, transformed_data, data_idx, epc >>

VARIABLES
  input_columns,     \* input_structure["columns"] handed to generate_mappings
  reference_columns, \* reference_structure["columns"]
  llm,               \* what the LLM collaborator did in this call
  gm_pc,             \* position of the generate_mappings call
  gm_result          \* the dict generate_mappings returned

mapVars == << input_columns, reference_columns, llm, gm_pc, gm_result >>

VARIABLES
  ap_rule,     \* the TransformationRule whose apply is called
  ap_value,    \* the value handed to apply and to infer_data_type
  ap_pc,       \* position of the apply call
  ap_result,   \* what apply returned or raised
  inf_pc,      \* position of the infer_data_type call
  inf_result   \* what infer_data_type returned or raised

valueVars == << ap_rule, ap_value, ap_pc, ap_result, inf_pc, inf_result >>

VARIABLES
  file_path,     \* the path handed to the parser factory
  file_type,     \* the optional type hint
  file_content,  \* what the file at file_path holds
  pf_pc,         \* position of the create_parser call
  parser,        \* what create_parser returned or raised
  df_pc,         \* position of the detect_file_type call
  detected       \* what detect_file_type returned

factoryVars == << file_path, file_type, file_content, pf_pc, parser, df_pc, detected >>

VARIABLES
  lines,         \* the lines of the file a parser reads, each a sequence of characters
  given_layout,  \* the layout argument FlatFileParser was constructed with
  layout,        \* FlatFileParser.layout
  flat_pc,       \* position of the FlatFileParser.parse call
  flat_result,   \* what FlatFileParser.parse returned or raised
  txt_pc,        \* position of the TXTParser.parse call
  txt_result     \* what TXTParser.parse returned

parseVars == << lines, given_layout, layout, flat_pc, flat_result, txt_pc, txt_result >>

VARIABLES
  column,          \* row.get(header) for the rows of a parsed table, for one header
  ds_parser,       \* the parser class whose detect_structure runs
  ds_pc,           \* position of the detect_structure call
  column_type,     \* column_types[header]
  column_samples   \* column_samples[header]

structVars == << column, ds_parser, ds_pc, column_type, column_samples >>

VARIABLES
  output_format,   \* job id -> the output_format its task was started with
  output_files,    \* the files written by generator.generate
  file_metadata    \* the records transform_file inserted into file_metadata

transformVars == << output_format, output_files, file_metadata >>

VARIABLES
  gen_headers,     \* FixedWidthOutputGenerator.headers
  gen_data,        \* FixedWidthOutputGenerator.data
  column_widths,   \* FixedWidthOutputGenerator.column_widths
  gen_pc,          \* position of the generate call
  written          \* the lines written to the output file

fixedVars == << gen_headers, gen_data, column_widths, gen_pc, written >>

VARIABLES
  cs_input,        \* input_structure["structure"]["columns"]
  cs_reference,    \* reference_structure["structure"]["columns"]
  cs_pc,           \* position of the compare_structures call
  comparison       \* the "comparison" entry of the returned dict

compareVars == << cs_input, cs_reference, cs_pc, comparison >>

\* the components outside the orchestrator and the engine
auxVars == << mapVars, valueVars, factoryVars, parseVars, structVars, transformVars,
              fixedVars, compareVars >>

vars       == << jobs, tasks, active_tasks, running, last, cancelCalls, apiCalls,
                 rules, validation_errors, mapping_config, data, transformed_data, data_idx, epc,
                 auxVars >>

\* ------------------------------------------------------------------ store
\* Error texts a collaborator (store lookup, parser, writer) can raise with;
\* the empty text is an exception constructed without a message.
InnerErrors == { "File not found", "" }

OutputFileId == "file-out"

\* update_job_status: status always written, progress clamped when given,
\* error_message / result_file_id written only when truthy; the update
\* matches no row when the id is unknown.
update_job_status(tbl, job_id, status, progress, error_message, result_file_id) ==
  IF job_id \notin DOMAIN tbl THEN tbl
  ELSE [tbl EXCEPT ![job_id] =
         [ status         |-> status,
           progress       |-> IF progress # None
                              THEN Min(100, Max(0, progress[1])) ELSE @.progress,
           error_message  |-> IF Truthy(error_message)
                              THEN error_message ELSE @.error_message,
           result_file_id |-> IF Truthy(result_file_id)
                              THEN result_file_id ELSE @.result_file_id ]]

\* the row inserted by create_job (task_manager.py) and by POST /jobs/
NewJob == [ status |-> PENDING, progress |-> 0,
            error_message |-> None, result_file_id |-> None ]

NextJobId == Cardinality(DOMAIN jobs) + 1

\* Mutant: the handlers catch every exception class ("except BaseException").
except_BaseException(excClass) == TRUE

\* "except Exception" catches every exception class except the
\* BaseException-only ones; asyncio.CancelledError is BaseException-only.
except_Exception(excClass) ==
  excClass \notin { "CancelledError", "KeyboardInterrupt", "SystemExit", "GeneratorExit" }

\* Mutant: the share of the items that remain.
BatchProgress_Remaining(idx, total_files) == ((total_files - idx) * 100) \div total_files

\* int(((idx + 1) / total_files) * 100); the double arithmetic agrees with
\* the integer floor for every total_files < 50.
BatchProgress(idx, total_files) == ((idx + 1) * 100) \div total_files

\* ------------------------------------------------------------------- task
NewTask(kind, n, operation) ==
  [ kind |-> kind, state |-> "scheduled", pc |-> "start", must_cancel |-> FALSE,
    cancelling |-> FALSE,
    outcome |-> "none", n |-> n, idx |-> 0, operation |-> operation,
    processed |-> 0, failed |-> 0,
    err |-> None, result |-> None, writes |-> 0 ]

Op(name, j, ret) == [ op |-> name, job |-> j, ret |-> ret ]

\* one store write by the task of job j
TaskWrite(j, status, progress, error_message, result_file_id) ==
  jobs' = update_job_status(jobs, j, status, progress, error_message, result_file_id)

\* the task of job j moves to position pc after a write
Goto(j, pc, wrote) ==
  tasks' = [tasks EXCEPT ![j].pc = pc,
                         ![j].writes = IF wrote THEN @ + 1 ELSE @]

\* Mutant: the body re-raises the collaborator's exception as it is.
Raise_Unwrapped(j, prefix, e) ==
  tasks' = [tasks EXCEPT ![j].pc = "L141", ![j].err = Some(e)]

\* the body raised e: its "except Exception" wraps the text and re-raises
Raise(j, prefix, e) ==
  tasks' = [tasks EXCEPT ![j].pc = "L141", ![j].err = Some(prefix \o e)]

JobIdle == /\ jobs = << >> /\ tasks = << >> /\ active_tasks = {} /\ running = 0
           /\ last = Op("init", 0, TRUE) /\ cancelCalls = 0 /\ apiCalls = 0

EngineIdle == /\ rules = << >> /\ validation_errors = << >> /\ mapping_config = << >>
              /\ data = << >> /\ transformed_data = << >> /\ data_idx = 0 /\ epc = "idle"

MapIdle == /\ input_columns = << >> /\ reference_columns = << >> /\ llm = "none"
           /\ gm_pc = "idle" /\ gm_result = << >>

ValueIdle == /\ ap_rule = << >> /\ ap_value = << >> /\ ap_pc = "idle" /\ ap_result = << >>
             /\ inf_pc = "idle" /\ inf_result = << >>

FactoryIdle == /\ file_path = "" /\ file_type = << >> /\ file_content = << >>
               /\ pf_pc = "idle" /\ parser = << >> /\ df_pc = "idle" /\ detected = << >>

ParseIdle == /\ lines = << >> /\ given_layout = << >> /\ layout = << >>
             /\ flat_pc = "idle" /\ flat_result = << >>
             /\ txt_pc = "idle" /\ txt_result = << >>

StructIdle == /\ column = << >> /\ ds_parser = "" /\ ds_pc = "idle"
              /\ column_type = "" /\ column_samples = << >>

TransformIdle == output_format = << >> /\ output_files = {} /\ file_metadata = {}

FixedIdle == /\ gen_headers = << >> /\ gen_data = << >> /\ column_widths = << >>
             /\ gen_pc = "idle" /\ written = << >>

CompareIdle == /\ cs_input = << >> /\ cs_reference = << >> /\ cs_pc = "idle"
               /\ comparison = << >>

AuxIdle == /\ MapIdle /\ ValueIdle /\ FactoryIdle /\ ParseIdle /\ StructIdle
           /\ TransformIdle /\ FixedIdle /\ CompareIdle

\* ------------------------------------------------------------ job creation
\* POST /jobs/ (jobs.py): inserts a pending record; no task is started.
create_job ==
  /\ running = 0
  /\ NextJobId <= MaxJobs
  /\ jobs' = jobs @@ (NextJobId :> NewJob)
  /\ last' = Op("create_job", NextJobId, TRUE)
  /\ UNCHANGED << tasks, active_tasks, running, cancelCalls, apiCalls >>

\* Mutant: the task is created but not put into the registry.
start_background_task_NoRegister(job_id, kind, n, operation) ==
  /\ tasks' = tasks @@ (job_id :> NewTask(kind, n, operation))
  /\ active_tasks' = active_tasks

\* start_background_task: create the task, register it; the done callback
\* (modelled by done_callback) is attached.
start_background_task(job_id, kind, n, operation) ==
  /\ tasks' = tasks @@ (job_id :> NewTask(kind, n, operation))
  /\ active_tasks' = active_tasks \cup {job_id}

\* The four jobs_enhanced.py endpoints: task_manager.create_job followed,
\* without a suspension point, by start_background_task.
CreateAndStart(kind, n, operation) ==
  /\ running = 0
  /\ NextJobId <= MaxJobs
  /\ jobs' = jobs @@ (NextJobId :> NewJob)
  /\ start_background_task(NextJobId, kind, n, operation)
  /\ last' = Op("start_background_task", NextJobId, TRUE)
  /\ UNCHANGED << running, cancelCalls, apiCalls >>

create_analysis_job       == CreateAndStart("analysis", 0, "none")
create_mapping_job        == CreateAndStart("mapping", 0, "none")
create_transformation_job == CreateAndStart("transformation", 0, "none")
create_batch_job ==
  \E n \in 0..MaxFiles, operation \in {"analyze", "transform"} :
    CreateAndStart("batch", n, operation)

\* ------------------------------------------------------------ execute_task
BodyEntry(t) ==
  CASE t.kind = "analysis"       -> "L36"
    [] t.kind = "mapping"        -> "L76"
    [] t.kind = "transformation" -> "L129"
    [] t.kind = "batch"          -> IF t.n = 0 THEN "L130" ELSE "L189"

\* The task ends: it is done, and the loop is free again.
Finish(j, outcome) ==
  tasks' = [tasks EXCEPT ![j].state = "done", ![j].outcome = outcome,
                         ![j].pc = "end", ![j].must_cancel = FALSE]

\* First step of the task.  A cancel requested before this step throws
\* CancelledError into the coroutine before its first statement, so no try
\* block is entered and nothing is written; otherwise line 124 runs.
execute_task_start(j) ==
  /\ running = 0
  /\ j \in DOMAIN tasks /\ tasks[j].state = "scheduled"
  /\ IF tasks[j].must_cancel
     THEN /\ Finish(j, "cancelled")
          /\ UNCHANGED << jobs, running >>
     ELSE /\ TaskWrite(j, PROCESSING, Some(0), None, None)
          /\ tasks' = [tasks EXCEPT ![j].state = "running",
                                    ![j].pc = BodyEntry(tasks[j]),
                                    ![j].writes = @ + 1]
          /\ running' = j
  /\ last' = Op("execute_task", j, TRUE)
  /\ UNCHANGED << active_tasks, cancelCalls, apiCalls >>

\* Lines 130-137 (body returned) and 139-146 (body raised an Exception).
execute_task_finish(j) ==
  /\ running = j
  /\ \/ /\ tasks[j].pc = "L130"
        /\ TaskWrite(j, COMPLETED, Some(100), None, tasks[j].result)
        /\ tasks' = [tasks EXCEPT ![j].state = "done", ![j].outcome = "result",
                                  ![j].pc = "end", ![j].writes = @ + 1]
     \/ /\ tasks[j].pc = "L141"
        /\ TaskWrite(j, FAILED, None, tasks[j].err, None)
        /\ tasks' = [tasks EXCEPT ![j].state = "done", ![j].outcome = "exception",
                                  ![j].pc = "end", ![j].writes = @ + 1]
  /\ running' = 0
  /\ last' = Op("execute_task", j, TRUE)
  /\ UNCHANGED << active_tasks, cancelCalls, apiCalls >>

\* ------------------------------------------------------------- job bodies
process_file_analysis(j) ==
  /\ running = j /\ tasks[j].kind = "analysis"
  /\ \/ /\ tasks[j].pc = "L36"
        /\ TaskWrite(j, PROCESSING, Some(10), None, None)
        /\ Goto(j, "L39", TRUE)
     \/ /\ tasks[j].pc = "L39"
        /\ TaskWrite(j, PROCESSING, Some(30), None, None)
        /\ Goto(j, "L40", TRUE)
     \/ /\ tasks[j].pc = "L40"      \* ParsingService.analyze_structure
        /\ \/ Goto(j, "L43", FALSE)
           \/ \E e \in InnerErrors : Raise(j, "File analysis failed: ", e)
        /\ UNCHANGED jobs
     \/ /\ tasks[j].pc = "L43"
        /\ TaskWrite(j, PROCESSING, Some(100), None, None)
        /\ Goto(j, "L130", TRUE)
  /\ last' = Op("process_file_analysis", j, TRUE)
  /\ UNCHANGED << active_tasks, running, cancelCalls, apiCalls >>

\* generate_mappings is entered at line 86: get_model raises when no
\* provider is configured (rule-based fallback, no suspension), otherwise
\* the task suspends in llm.ainvoke (mapping_service.py:55).
process_mapping_generation(j) ==
  /\ running = j /\ tasks[j].kind = "mapping"
  /\ \/ /\ tasks[j].pc = "L76"
        /\ TaskWrite(j, PROCESSING, Some(20), None, None)
        /\ Goto(j, "L77", TRUE)
        /\ UNCHANGED running
     \/ /\ tasks[j].pc = "L77"
        /\ \/ Goto(j, "L80", FALSE)
           \/ \E e \in InnerErrors : Raise(j, "Mapping generation failed: ", e)
        /\ UNCHANGED << jobs, running >>
     \/ /\ tasks[j].pc = "L80"
        /\ TaskWrite(j, PROCESSING, Some(40), None, None)
        /\ Goto(j, "L81", TRUE)
        /\ UNCHANGED running
     \/ /\ tasks[j].pc = "L81"
        /\ \/ Goto(j, "L84", FALSE)
           \/ \E e \in InnerErrors : Raise(j, "Mapping generation failed: ", e)
        /\ UNCHANGED << jobs, running >>
     \/ /\ tasks[j].pc = "L84"
        /\ TaskWrite(j, PROCESSING, Some(60), None, None)
        /\ Goto(j, "L86", TRUE)
        /\ UNCHANGED running
     \/ /\ tasks[j].pc = "L86"
        /\ \/ /\ Goto(j, "L92", FALSE)
              /\ UNCHANGED running
           \/ /\ tasks' = [tasks EXCEPT ![j].state = "waiting", ![j].pc = "ainvoke"]
              /\ running' = 0
        /\ UNCHANGED jobs
     \/ /\ tasks[j].pc = "L92"
        /\ TaskWrite(j, PROCESSING, Some(100), None, None)
        /\ Goto(j, "L130", TRUE)
        /\ UNCHANGED running
  /\ last' = Op("process_mapping_generation", j, TRUE)
  /\ UNCHANGED << active_tasks, cancelCalls, apiCalls >>

\* The loop resumes the task suspended in llm.ainvoke.  With a pending
\* cancel, CancelledError is raised at the await: generate_mappings (line
\* 69), the body (line 100) and execute_task (line 139) each catch it only
\* if their "except Exception" does.  Otherwise the LLM call returned or
\* raised an Exception, and generate_mappings returns a result either way.
ainvoke_resume(j) ==
  /\ running = 0
  /\ j \in DOMAIN tasks /\ tasks[j].state = "waiting"
  /\ IF tasks[j].must_cancel /\ ~ except_Exception("CancelledError")
     THEN /\ Finish(j, "cancelled")
          /\ UNCHANGED running
     ELSE /\ tasks' = [tasks EXCEPT ![j].state = "running", ![j].pc = "L92",
                                    ![j].must_cancel = FALSE]
          /\ running' = j
  /\ last' = Op("ainvoke", j, TRUE)
  /\ UNCHANGED << jobs, active_tasks, cancelCalls, apiCalls >>

\* transform_file returns with the inserted file record's id, returns with
\* no id (the insert reported no data), or raises.
process_file_transformation(j) ==
  /\ running = j /\ tasks[j].kind = "transformation"
  /\ \/ /\ tasks[j].pc = "L129"
        /\ TaskWrite(j, PROCESSING, Some(20), None, None)
        /\ Goto(j, "L132", TRUE)
     \/ /\ tasks[j].pc = "L132"
        /\ \/ \E id \in { None, Some(OutputFileId) } :
                tasks' = [tasks EXCEPT ![j].pc = "L140", ![j].result = id]
           \/ \E e \in InnerErrors : Raise(j, "File transformation failed: ", e)
        /\ UNCHANGED jobs
     \/ /\ tasks[j].pc = "L140"
        /\ TaskWrite(j, PROCESSING, Some(100), None, tasks[j].result)
        /\ Goto(j, "L130", TRUE)
  /\ last' = Op("process_file_transformation", j, TRUE)
  /\ UNCHANGED << active_tasks, running, cancelCalls, apiCalls >>

\* Mutant: the error of an item is not caught inside the loop; it reaches
\* the outer handler of line 209.
process_batch_files_AbortOnError(j) ==
  /\ running = j /\ tasks[j].kind = "batch"
  /\ \/ /\ tasks[j].pc = "L189"
        /\ TaskWrite(j, PROCESSING, Some(BatchProgress(tasks[j].idx, tasks[j].n)), None, None)
        /\ Goto(j, "L192", TRUE)
     \/ /\ tasks[j].pc = "L192"
        /\ \E ok \in BOOLEAN :
             /\ ok => tasks[j].operation = "analyze"
             /\ IF ok
                THEN tasks' = [tasks EXCEPT
                       ![j].processed = @ + 1,
                       ![j].idx       = @ + 1,
                       ![j].pc        = IF tasks[j].idx + 1 < tasks[j].n THEN "L189" ELSE "L130"]
                ELSE Raise(j, "Batch processing failed: ", "File not found")
        /\ UNCHANGED jobs
  /\ last' = Op("process_batch_files", j, TRUE)
  /\ UNCHANGED << active_tasks, running, cancelCalls, apiCalls >>

\* One loop iteration is two steps: the progress write of line 189, then
\* the item (lines 191-199), whose error is caught and counted.
process_batch_files(j) ==
  /\ running = j /\ tasks[j].kind = "batch"
  /\ \/ /\ tasks[j].pc = "L189"
        /\ TaskWrite(j, PROCESSING, Some(BatchProgress(tasks[j].idx, tasks[j].n)), None, None)
        /\ Goto(j, "L192", TRUE)
     \/ /\ tasks[j].pc = "L192"
        /\ \E ok \in BOOLEAN :
             /\ ok => tasks[j].operation = "analyze"
             /\ tasks' = [tasks EXCEPT
                  ![j].processed = IF ok THEN @ + 1 ELSE @,
                  ![j].failed    = IF ok THEN @ ELSE @ + 1,
                  ![j].idx       = @ + 1,
                  ![j].pc        = IF tasks[j].idx + 1 < tasks[j].n THEN "L189" ELSE "L130"]
        /\ UNCHANGED jobs
  /\ last' = Op("process_batch_files", j, TRUE)
  /\ UNCHANGED << active_tasks, running, cancelCalls, apiCalls >>

\* The done callback of start_background_task (line 174).
done_callback(j) ==
  /\ running = 0
  /\ j \in active_tasks /\ tasks[j].state = "done"
  /\ active_tasks' = active_tasks \ {j}
  /\ last' = Op("done_callback", j, TRUE)
  /\ UNCHANGED << jobs, tasks, running, cancelCalls, apiCalls >>

\* ---------------------------------------------------------------- cancel
\* Mutants of the guard of line 190.
TaskUnfinished_NoDoneCheck(job_id) == job_id \in active_tasks
TaskUnfinished_EverStarted(job_id) == job_id \in DOMAIN tasks

\* line 188-190: "task and not task.done()"
TaskUnfinished(job_id) == job_id \in active_tasks /\ tasks[job_id].state # "done"

\* Mutant: the cancellation is requested but cancelled is not written.
cancel_job_NoStatusWrite(job_id) ==
  /\ running = 0
  /\ cancelCalls < MaxCancelCalls
  /\ job_id \in DOMAIN jobs
  /\ cancelCalls' = cancelCalls + 1
  /\ IF TaskUnfinished(job_id)
     THEN /\ tasks' = [tasks EXCEPT ![job_id].must_cancel = TRUE,
                                    ![job_id].cancelling = TRUE]
          /\ last' = Op("cancel_job", job_id, TRUE)
          /\ UNCHANGED jobs
     ELSE /\ last' = Op("cancel_job", job_id, FALSE)
          /\ UNCHANGED << jobs, tasks >>
  /\ UNCHANGED << active_tasks, running, apiCalls >>

\* BackgroundTaskManager.cancel_job, reached through POST /jobs/{id}/cancel
\* after get_job found the record.  task.cancel() only requests the
\* cancellation: the task sees it at its next step.
cancel_job(job_id) ==
  /\ running = 0
  /\ cancelCalls < MaxCancelCalls
  /\ job_id \in DOMAIN jobs
  /\ cancelCalls' = cancelCalls + 1
  /\ IF TaskUnfinished(job_id)
     THEN /\ tasks' = [tasks EXCEPT ![job_id].must_cancel = TRUE,
                                    ![job_id].cancelling = TRUE]
          /\ jobs' = update_job_status(jobs, job_id, CANCELLED, None, None, None)
          /\ last' = Op("cancel_job", job_id, TRUE)
     ELSE /\ last' = Op("cancel_job", job_id, FALSE)
          /\ UNCHANGED << jobs, tasks >>
  /\ UNCHANGED << active_tasks, running, apiCalls >>

\* ------------------------------------------------------ jobs.py endpoints
\* PATCH /jobs/{job_id}: writes every field of JobUpdate that is not None
\* to the row matching the id and the caller (owner: the caller owns it).
update_job(job_id, status, progress, result_file_id, error_message, owner) ==
  /\ running = 0
  /\ apiCalls < MaxApiCalls
  /\ job_id \in DOMAIN jobs
  /\ apiCalls' = apiCalls + 1
  /\ IF owner /\ << status, progress, result_file_id, error_message >> # << None, None, None, None >>
     THEN /\ jobs' = [jobs EXCEPT ![job_id] =
                [ status         |-> IF status # None THEN status[1] ELSE @.status,
                  progress       |-> IF progress # None THEN progress[1] ELSE @.progress,
                  error_message  |-> IF error_message # None THEN error_message ELSE @.error_message,
                  result_file_id |-> IF result_file_id # None THEN result_file_id ELSE @.result_file_id ]]
          /\ last' = Op("update_job", job_id, TRUE)
     ELSE /\ last' = Op("update_job", job_id, FALSE)
          /\ UNCHANGED jobs
  /\ UNCHANGED << tasks, active_tasks, running, cancelCalls >>

\* DELETE /jobs/{job_id}: sets the status of the matching row to cancelled.
jobs_cancel_job(job_id, owner) ==
  /\ running = 0
  /\ apiCalls < MaxApiCalls
  /\ job_id \in DOMAIN jobs
  /\ apiCalls' = apiCalls + 1
  /\ IF owner
     THEN /\ jobs' = [jobs EXCEPT ![job_id].status = CANCELLED]
          /\ last' = Op("jobs_cancel_job", job_id, TRUE)
     ELSE /\ last' = Op("jobs_cancel_job", job_id, FALSE)
          /\ UNCHANGED jobs
  /\ UNCHANGED << tasks, active_tasks, running, cancelCalls >>

\* the values of JobUpdate accepted by its validators (schemas/job.py)
PatchStatus   == { None, Some(PENDING), Some(PROCESSING), Some(COMPLETED), Some(FAILED) }
PatchProgress == { None, Some(0), Some(100) }
PatchResult   == { None, Some("file-x") }
PatchError    == { None }

\* -------------------------------------------------------- specifications
Init == JobIdle /\ EngineIdle /\ AuxIdle

TaskNext ==
  \E j \in 1..MaxJobs :
    \/ execute_task_start(j)
    \/ process_file_analysis(j)
    \/ process_mapping_generation(j)
    \/ ainvoke_resume(j)
    \/ process_file_transformation(j)
    \/ process_batch_files(j)
    \/ execute_task_finish(j)
    \/ done_callback(j)
    \/ cancel_job(j)

CreateNext ==
  \/ create_job
  \/ create_analysis_job
  \/ create_mapping_job
  \/ create_transformation_job
  \/ create_batch_job

ApiNext ==
  \E j \in 1..MaxJobs, owner \in BOOLEAN :
    \/ \E status \in PatchStatus, progress \in PatchProgress,
          result_file_id \in PatchResult, error_message \in PatchError :
         update_job(j, status, progress, result_file_id, error_message, owner)
    \/ jobs_cancel_job(j, owner)

\* the orchestrator: job creation, the tasks, cancel_job
Next == (CreateNext \/ TaskNext) /\ UNCHANGED << engineVars, auxVars >>
Spec == Init /\ [][Next]_vars

\* The event loop runs every step that is ready: the next step of a task
\* that is scheduled or holds the loop, the resumption of a task whose LLM
\* call has returned or raised, and a finished task's done callback.
\* Requests (job creation, cancel_job) may or may not arrive.
TaskStep(j) ==
  /\ \/ execute_task_start(j)
     \/ process_file_analysis(j)
     \/ process_mapping_generation(j)
     \/ ainvoke_resume(j)
     \/ process_file_transformation(j)
     \/ process_batch_files(j)
     \/ execute_task_finish(j)
     \/ done_callback(j)
  /\ UNCHANGED << engineVars, auxVars >>

SpecLive == Init /\ [][Next]_vars /\ \A j \in 1..MaxJobs : WF_vars(TaskStep(j))

\* the orchestrator together with the jobs.py PATCH and DELETE endpoints
NextApi == (CreateNext \/ TaskNext \/ ApiNext) /\ UNCHANGED << engineVars, auxVars >>
SpecApi == Init /\ [][NextApi]_vars

TypeOK ==
  /\ DOMAIN jobs = 1..Cardinality(DOMAIN jobs)
  /\ \A j \in DOMAIN jobs :
       jobs[j].status \in { PENDING, PROCESSING, COMPLETED, FAILED, CANCELLED }
  /\ DOMAIN tasks \subseteq DOMAIN jobs
  /\ active_tasks \subseteq DOMAIN tasks
  /\ running \in 0..MaxJobs
  /\ running # 0 => tasks[running].state = "running"

\* ================================================= transformation engine
\* A Python value is a record of its type and of str(value).
NoneV    == [ t |-> "none",  v |-> "None" ]
StrV(s)   == [ t |-> "str",   v |-> s ]
IntV(s)   == [ t |-> "int",   v |-> s ]
FloatV(s) == [ t |-> "float", v |-> s ]
BoolV(s)  == [ t |-> "bool",  v |-> s ]

PyStr(value) == value.v

\* bool(value)
PyTruthy(value) ==
  CASE value.t = "none"  -> FALSE
    [] value.t = "str"   -> value.v # ""
    [] value.t = "int"   -> value.v # "0"
    [] value.t = "float" -> value.v \notin { "0.0", "-0.0" }
    [] value.t = "bool"  -> value.v = "True"

\* str.upper, str.lower, str.strip on the texts of the model
PyUpper(s) ==
  CASE s = "abc" -> "ABC" [] s = " Ab " -> " AB " [] s = "Ab" -> "AB"
    [] s = "inf" -> "INF" [] s = "True" -> "TRUE" [] s = "False" -> "FALSE"
    [] s = "true" -> "TRUE" [] s = "hello" -> "HELLO" [] s = "a-b" -> "A-B"
    [] s = "nan" -> "NAN" [] s = "-inf" -> "-INF" [] OTHER -> s
PyLower(s) ==
  CASE s = " Ab " -> " ab " [] s = "Ab" -> "ab" [] s = "ABC" -> "abc"
    [] s = "True" -> "true" [] s = "False" -> "false"
    [] s = "CSV" -> "csv" [] s = "PDF" -> "pdf" [] OTHER -> s
PyStrip(s) ==
  CASE s = " Ab " -> "Ab" [] s = " 7 " -> "7" [] OTHER -> s

\* float(value): the float's repr, or the exception class
PyFloat(value) ==
  CASE value.t = "float" -> [ exc |-> "", f |-> value.v ]
    [] value.t = "int"   -> [ exc |-> "", f |-> value.v \o ".0" ]
    [] value.t = "bool"  -> [ exc |-> "", f |-> IF value.v = "True" THEN "1.0" ELSE "0.0" ]
    [] value.t = "none"  -> [ exc |-> "TypeError", f |-> "" ]
    [] value.t = "str"   ->
         CASE value.v \in { "7", " 7 " } -> [ exc |-> "", f |-> "7.0" ]
           [] value.v = "0"    -> [ exc |-> "", f |-> "0.0" ]
           [] value.v = "4.5"  -> [ exc |-> "", f |-> "4.5" ]
           [] value.v = "42"   -> [ exc |-> "", f |-> "42.0" ]
           [] value.v = "42.5" -> [ exc |-> "", f |-> "42.5" ]
           [] value.v = "inf"  -> [ exc |-> "", f |-> "inf" ]
           [] OTHER           -> [ exc |-> "ValueError", f |-> "" ]

\* int(f) for a float f
PyIntOfFloat(f) ==
  CASE f = "7.0" -> [ exc |-> "", i |-> "7" ]
    [] f = "4.5" -> [ exc |-> "", i |-> "4" ]
    [] f \in { "0.0", "-0.0" } -> [ exc |-> "", i |-> "0" ]
    [] f = "1.0" -> [ exc |-> "", i |-> "1" ]
    [] f \in { "42.0", "42.5" } -> [ exc |-> "", i |-> "42" ]
    [] f \in { "inf", "-inf" } -> [ exc |-> "OverflowError", i |-> "" ]
    [] OTHER     -> [ exc |-> "ValueError", i |-> "" ]

\* str(e) of the exceptions of the model
ErrorText(excClass) ==
  CASE excClass = "OverflowError" -> "cannot convert float infinity to integer"
    [] OTHER -> excClass

Ret(value)     == [ exc |-> "", val |-> value ]
Throw(excClass) == [ exc |-> excClass, val |-> NoneV ]

\* TransformationRule.apply for a rule without a custom function (the
\* rules add_rules_from_config builds carry none).
apply(rule, value) ==
  IF value = NoneV THEN Ret(rule.default_value)
  ELSE CASE rule.transformation_type = "direct" -> Ret(value)
         [] rule.transformation_type = "uppercase" ->
              Ret(IF PyTruthy(value) THEN StrV(PyUpper(PyStr(value))) ELSE NoneV)
         [] rule.transformation_type = "lowercase" ->
              Ret(IF PyTruthy(value) THEN StrV(PyLower(PyStr(value))) ELSE NoneV)
         [] rule.transformation_type = "trim" ->
              Ret(IF PyTruthy(value) THEN StrV(PyStrip(PyStr(value))) ELSE NoneV)
         [] rule.transformation_type = "int" ->
              IF ~ PyTruthy(value) THEN Ret(NoneV)
              ELSE LET f == PyFloat(value) IN
                   IF f.exc \in { "ValueError", "TypeError" } THEN Ret(NoneV)
                   ELSE LET i == PyIntOfFloat(f.f) IN
                        IF i.exc = "" THEN Ret(IntV(i.i))
                        ELSE IF i.exc \in { "ValueError", "TypeError" } THEN Ret(NoneV)
                        ELSE Throw(i.exc)
         [] rule.transformation_type = "float" ->
              IF ~ PyTruthy(value) THEN Ret(NoneV)
              ELSE LET f == PyFloat(value) IN
                   IF f.exc = "" THEN Ret(FloatV(f.f)) ELSE Ret(NoneV)
         [] rule.transformation_type = "boolean" ->
              IF value.t = "bool" THEN Ret(value)
              ELSE Ret(BoolV(IF PyLower(PyStr(value)) \in { "true", "yes", "1", "y" }
                            THEN "True" ELSE "False"))
         [] rule.transformation_type = "date" ->
              Ret(IF PyTruthy(value) THEN StrV(PyStr(value)) ELSE NoneV)
         [] OTHER -> Ret(value)

\* TransformationRule.__init__ as add_rules_from_config calls it
TransformationRule(source_column, target_column, transformation_type) ==
  [ source_column |-> source_column, target_column |-> target_column,
    transformation_type |-> transformation_type, default_value |-> NoneV ]

\* mapping.get("reference_column") or mapping.get("target_column")
TargetOf(mapping) ==
  IF Truthy(mapping.reference_column) THEN mapping.reference_column
  ELSE mapping.target_column

\* add_rules_from_config: one rule, in order, for every entry that has a
\* truthy source and a truthy target
RECURSIVE RulesFromConfig(_)
RulesFromConfig(mappings) ==
  IF mappings = << >> THEN << >>
  ELSE LET mapping == Head(mappings)
           source  == mapping.input_column
           target  == TargetOf(mapping)
       IN (IF Truthy(source) /\ Truthy(target)
           THEN << TransformationRule(source[1], target[1], mapping.transformation) >>
           ELSE << >>) \o RulesFromConfig(Tail(mappings))

\* dict.get
Get(row, key) == IF key \in DOMAIN row THEN row[key] ELSE NoneV

\* Mutant: a target column keeps the value of the first rule that wrote it.
RECURSIVE transform_row_FirstWins(_, _, _)
transform_row_FirstWins(rs, row, transformed) ==
  IF rs = << >> THEN [ exc |-> "", val |-> transformed ]
  ELSE LET rule == Head(rs)
           r    == apply(rule, Get(row, rule.source_column))
       IN IF r.exc # "" THEN [ exc |-> r.exc, val |-> << >> ]
          ELSE transform_row_FirstWins(Tail(rs), row,
                 transformed @@ (rule.target_column :> r.val))

\* transform_row: the loop of lines 110-113 over the remaining rules rs,
\* transformed being the dict built so far; an exception of apply leaves
\* the loop.
RECURSIVE transform_row(_, _, _)
transform_row(rs, row, transformed) ==
  IF rs = << >> THEN [ exc |-> "", val |-> transformed ]
  ELSE LET rule == Head(rs)
           r    == apply(rule, Get(row, rule.source_column))
       IN IF r.exc # "" THEN [ exc |-> r.exc, val |-> << >> ]
          ELSE transform_row(Tail(rs), row,
                 (rule.target_column :> r.val) @@ transformed)

\* Mutant: the error entry counts rows from 1.
validation_error_OneBased(i, excClass, row) ==
  [ row_index |-> i + 1, error |-> ErrorText(excClass), row_data |-> row ]

\* the entry appended by lines 134-138
validation_error(i, excClass, row) ==
  [ row_index |-> i, error |-> ErrorText(excClass), row_data |-> row ]

\* ---- inputs of the engine run
SourceColumns == { "a", "b" }

Rows == { [ a |-> StrV("inf"), b |-> StrV("7") ],
          ("b" :> StrV(" Ab ")) }

\* an entry names its target as reference_column, as target_column, or not
\* at all, and its source as input_column or not at all
Mappings ==
  { [ input_column |-> i, reference_column |-> t[1], target_column |-> t[2],
      transformation |-> k ] :
      i \in { None, Some("a"), Some("b") },
      t \in { << None, None >>, << Some("X"), None >>, << None, Some("Y") >> },
      k \in { "int", "uppercase" } }

SeqsUpTo(S, n) == UNION { [1..k -> S] : k \in 0..n }

\* transform_file / validate_transformation, lines 50-54: a fresh engine,
\* the rules of the configuration, then transform_data
EngineInit ==
  /\ JobIdle /\ AuxIdle
  /\ mapping_config \in SeqsUpTo(Mappings, MaxRules)
  /\ data \in SeqsUpTo(Rows, MaxRows)
  /\ rules = << >> /\ validation_errors = << >> /\ transformed_data = << >>
  /\ data_idx = 0 /\ epc = "new"

add_rules_from_config ==
  /\ epc = "new"
  /\ rules' = rules \o RulesFromConfig(mapping_config)
  /\ epc' = "loop"
  /\ UNCHANGED << validation_errors, mapping_config, data, transformed_data, data_idx >>

\* one iteration of the loop of transform_data (lines 129-138)
transform_data_row ==
  /\ epc = "loop" /\ data_idx < Len(data)
  /\ LET row == data[data_idx + 1]
         r   == transform_row(rules, row, << >>)
     IN IF r.exc = ""
        THEN /\ transformed_data' = Append(transformed_data, r.val)
             /\ UNCHANGED << validation_errors, epc >>
        ELSE IF except_Exception(r.exc)
        THEN /\ validation_errors' = Append(validation_errors, validation_error(data_idx, r.exc, row))
             /\ UNCHANGED << transformed_data, epc >>
        ELSE /\ epc' = "raised"
             /\ UNCHANGED << transformed_data, validation_errors >>
  /\ data_idx' = data_idx + 1
  /\ UNCHANGED << rules, mapping_config, data >>

\* line 140
transform_data_return ==
  /\ epc = "loop" /\ data_idx = Len(data)
  /\ epc' = "done"
  /\ UNCHANGED << rules, validation_errors, mapping_config, data, transformed_data, data_idx >>

\* list(transformed_data[0].keys()): the target columns the rules rs wrote,
\* each once, in the order of their first write
RECURSIVE row_keys(_, _)
row_keys(rs, seen) ==
  IF rs = << >> THEN << >>
  ELSE (IF Head(rs).target_column \in seen THEN << >> ELSE << Head(rs).target_column >>)
         \o row_keys(Tail(rs), seen \cup { Head(rs).target_column })

\* transform_file, lines 57-66: the target of every entry that names one,
\* in order; when no entry names one, the keys of the first transformed row
target_headers ==
  LET named == SelectSeq(mapping_config, LAMBDA mapping : Truthy(TargetOf(mapping)))
      listed == [ k \in DOMAIN named |-> TargetOf(named[k])[1] ]
  IN IF listed # << >> THEN listed
     ELSE IF transformed_data # << >> THEN row_keys(rules, {})
     ELSE << >>

NextEngine ==
  /\ \/ add_rules_from_config
     \/ transform_data_row
     \/ transform_data_return
  /\ UNCHANGED << jobVars, auxVars >>

SpecEngine == EngineInit /\ [][NextEngine]_vars

\* ======================================================= mapping service
MaxColumns  == 2   \* columns of a structure handed to generate_mappings
MaxReplyLen == 2   \* characters of an LLM reply

ColumnNames == { "Customer_Name", "customer_name", "Email", "Email_Address" }

\* name.lower().replace('_', '').replace(' ', '') on the names of the model
Normalize(name) ==
  CASE name \in { "Customer_Name", "customer_name" } -> "customername"
    [] name = "Email"         -> "email"
    [] name = "Email_Address" -> "emailaddress"
    [] OTHER                  -> name

Range(s) == { s[i] : i \in DOMAIN s }

\* one entry of the mappings list of _fallback_mapping
FallbackEntry(input_col, ref_col, confidence, reasoning, transformation) ==
  [ input_column |-> input_col, reference_column |-> ref_col,
    confidence |-> confidence, reasoning |-> reasoning,
    transformation |-> transformation ]

\* the loop of lines 181-191 over the remaining input columns
RECURSIVE ExactMatches(_, _)
ExactMatches(inp, ref) ==
  IF inp = << >> THEN << >>
  ELSE (IF Head(inp) \in Range(ref)
        THEN << FallbackEntry(Head(inp), Head(inp), 100, "Exact name match", "none") >>
        ELSE << >>) \o ExactMatches(Tail(inp), ref)

\* lines 200-206: the position of the first reference column that is not
\* in mapped_references and has the same normalised name, 0 if there is none
FirstMatch(input_lower, ref, mapped_references) ==
  LET hits == { k \in 1..Len(ref) :
                  ref[k] \notin mapped_references /\ Normalize(ref[k]) = input_lower }
  IN IF hits = {} THEN 0 ELSE CHOOSE k \in hits : \A h \in hits : k <= h

\* the loop of lines 194-216 over the remaining input columns; st holds
\* mappings, mapped_inputs and mapped_references
RECURSIVE CaseInsensitiveMatches(_, _, _)
CaseInsensitiveMatches(inp, ref, st) ==
  IF inp = << >> THEN st
  ELSE LET input_col == Head(inp)
           k == FirstMatch(Normalize(input_col), ref, st.mapped_references)
       IN IF input_col \in st.mapped_inputs \/ k = 0
          THEN CaseInsensitiveMatches(Tail(inp), ref, st)
          ELSE CaseInsensitiveMatches(Tail(inp), ref,
                 [ mappings |-> Append(st.mappings,
                      FallbackEntry(input_col, ref[k], 90, "Case-insensitive match", "rename")),
                   mapped_inputs     |-> st.mapped_inputs \cup { input_col },
                   mapped_references |-> st.mapped_references \cup { ref[k] } ])

\* _fallback_mapping; overall_confidence is the quotient num / den
_fallback_mapping(inp, ref) ==
  LET exact == ExactMatches(inp, ref)
      names == { exact[k].input_column : k \in DOMAIN exact }
      st    == CaseInsensitiveMatches(inp, ref,
                 [ mappings |-> exact, mapped_inputs |-> names, mapped_references |-> names ])
  IN [ mappings                   |-> st.mappings,
       unmapped_input_columns     |-> SelectSeq(inp, LAMBDA c : c \notin st.mapped_inputs),
       unmapped_reference_columns |-> SelectSeq(ref, LAMBDA c : c \notin st.mapped_references),
       overall_confidence         |-> [ num |-> Len(st.mappings) * 100,
                                        den |-> Max(Len(inp), 1) ],
       fallback_used              |-> TRUE ]

\* str.find and str.rfind: 0-based position, -1 when the character is absent
Find(s, ch) ==
  LET at == { i \in DOMAIN s : s[i] = ch }
  IN IF at = {} THEN -1 ELSE (CHOOSE i \in at : \A k \in at : i <= k) - 1
RFind(s, ch) ==
  LET at == { i \in DOMAIN s : s[i] = ch }
  IN IF at = {} THEN -1 ELSE (CHOOSE i \in at : \A k \in at : i >= k) - 1

\* the characters an LLM reply is made of; a reply is a sequence of them
ReplyChars == { "{", "}", "x" }
Replies    == SeqsUpTo(ReplyChars, MaxReplyLen)

\* json.loads on a text that starts with "{" and ends with "}": over
\* ReplyChars only "{}" is a JSON document, and it is the empty dict
json_loads(json_str) ==
  IF json_str = << "{", "}" >> THEN [ exc |-> "", val |-> << >> ]
  ELSE [ exc |-> "JSONDecodeError", val |-> << >> ]

_parse_json_response(response) ==
  LET start == Find(response, "{")
      end   == RFind(response, "}") + 1
  IN IF start >= 0 /\ end > start
     THEN LET r == json_loads(SubSeq(response, start + 1, end))
          IN IF r.exc = "" THEN r.val
             ELSE [ error |-> "Invalid JSON in response", raw |-> response ]
     ELSE [ error |-> "No JSON found in response", raw |-> response ]

\* what the awaited llm.ainvoke can raise
LLMErrors == { "APIError", "CancelledError" }

NoCall == [ kind |-> "none", exc |-> "", content |-> << >> ]

\* a call of generate_mappings has been entered
MappingInit ==
  /\ JobIdle /\ EngineIdle /\ ValueIdle /\ FactoryIdle /\ ParseIdle /\ StructIdle /\ TransformIdle
  /\ FixedIdle /\ CompareIdle
  /\ input_columns \in SeqsUpTo(ColumnNames, MaxColumns)
  /\ reference_columns \in SeqsUpTo(ColumnNames, MaxColumns)
  /\ llm = NoCall /\ gm_pc = "L40" /\ gm_result = << >>

\* line 40: get_model raises ValueError when no provider is configured,
\* which line 69 catches; otherwise the call goes on to the await of line 55
get_model ==
  /\ gm_pc = "L40"
  /\ \/ /\ llm' = [ kind |-> "not_configured", exc |-> "ValueError", content |-> << >> ]
        /\ gm_result' = _fallback_mapping(input_columns, reference_columns)
        /\ gm_pc' = "returned"
     \/ /\ gm_pc' = "L55"
        /\ UNCHANGED << llm, gm_result >>
  /\ UNCHANGED << input_columns, reference_columns >>

\* lines 55-72: the await ends because the collaborator raised or replied;
\* a collaborator that never answers leaves the call at line 55
ainvoke ==
  /\ gm_pc = "L55"
  /\ \/ \E excClass \in LLMErrors :
          /\ llm' = [ kind |-> "error", exc |-> excClass, content |-> << >> ]
          /\ IF except_Exception(excClass)
             THEN /\ gm_result' = _fallback_mapping(input_columns, reference_columns)
                  /\ gm_pc' = "returned"
             ELSE /\ gm_pc' = "raised"
                  /\ UNCHANGED gm_result
     \/ \E content \in Replies :
          /\ llm' = [ kind |-> "reply", exc |-> "", content |-> content ]
          /\ gm_result' = _parse_json_response(content)
          /\ gm_pc' = "returned"
  /\ UNCHANGED << input_columns, reference_columns >>

NextMapping ==
  /\ \/ get_model
     \/ ainvoke
  /\ UNCHANGED << jobVars, engineVars, valueVars, factoryVars, parseVars, structVars,
                  transformVars, fixedVars, compareVars >>

SpecMapping == MappingInit /\ [][NextMapping]_vars

\* ================================================ values: apply and types
\* int(value): the integer's text, or the exception class
PyInt(value) ==
  CASE value.t = "int"   -> [ exc |-> "", i |-> value.v ]
    [] value.t = "bool"  -> [ exc |-> "", i |-> IF value.v = "True" THEN "1" ELSE "0" ]
    [] value.t = "float" -> PyIntOfFloat(value.v)
    [] value.t = "none"  -> [ exc |-> "TypeError", i |-> "" ]
    [] value.t = "str"   ->
         CASE value.v \in { "7", " 7 " } -> [ exc |-> "", i |-> "7" ]
           [] value.v \in { "0", "42" }  -> [ exc |-> "", i |-> value.v ]
           [] OTHER                      -> [ exc |-> "ValueError", i |-> "" ]

\* value_str.replace('-', '/').split('/') on the texts of the model
DateParts(value_str) ==
  CASE value_str = "2024-01-05" -> << "2024", "01", "05" >>
    [] value_str = "1/2"        -> << "1", "2" >>
    [] value_str = "a-b"        -> << "a", "b" >>
    [] value_str = "-inf"       -> << "", "inf" >>
    [] OTHER                    -> << value_str >>

\* str.isdigit on the parts of the model
IsDigit(p) == p \in { "2024", "01", "05", "1", "2", "0", "7", "42" }

Inferred(type) == [ exc |-> "", type |-> type ]

\* BaseParser.infer_data_type: the type name, or the exception class that
\* leaves the function because neither except clause names it
infer_data_type(value) ==
  IF value = NoneV \/ value = StrV("") THEN Inferred("null")
  ELSE LET i == PyInt(value) IN
       IF i.exc = "" THEN Inferred("integer")
       ELSE IF i.exc \notin { "ValueError", "TypeError" } THEN [ exc |-> i.exc, type |-> "" ]
       ELSE LET f == PyFloat(value) IN
            IF f.exc = "" THEN Inferred("float")
            ELSE IF f.exc \notin { "ValueError", "TypeError" } THEN [ exc |-> f.exc, type |-> "" ]
            ELSE IF value.t = "bool" \/ PyLower(PyStr(value)) \in { "true", "false", "yes", "no" }
            THEN Inferred("boolean")
            ELSE LET parts == DateParts(PyStr(value)) IN
                 IF Len(parts) >= 2 /\ \A k \in DOMAIN parts : IsDigit(parts[k])
                 THEN Inferred("date") ELSE Inferred("string")

\* the values a parser hands on: texts (text parsers), typed numbers,
\* booleans and None (spreadsheet and pandas-based parsers)
Values ==
  { NoneV, StrV(""), StrV("42"), StrV("42.5"), StrV("true"), StrV("2024-01-05"),
    StrV("hello"), StrV("inf"), StrV("1/2"), StrV("a-b"), StrV(" Ab "), StrV("7"),
    IntV("42"), IntV("0"), FloatV("42.5"), FloatV("42.0"), FloatV("0.0"),
    FloatV("inf"), FloatV("-inf"), FloatV("nan"), BoolV("True"), BoolV("False") }

TransformKinds ==
  { "direct", "uppercase", "lowercase", "trim", "int", "float", "boolean", "date", "custom" }

\* parameters.get('default_value') of a rule
DefaultValues == { NoneV, StrV("n/a") }

\* a rule and a value are given; apply and infer_data_type are about to be called
ValueInit ==
  /\ JobIdle /\ EngineIdle /\ MapIdle /\ FactoryIdle /\ ParseIdle /\ StructIdle /\ TransformIdle
  /\ FixedIdle /\ CompareIdle
  /\ \E k \in TransformKinds, d \in DefaultValues :
       ap_rule = [ TransformationRule("a", "X", k) EXCEPT !.default_value = d ]
  /\ ap_value \in Values
  /\ ap_pc = "call" /\ ap_result = << >>
  /\ inf_pc = "call" /\ inf_result = << >>

\* rule.apply(value)
apply_call ==
  /\ ap_pc = "call"
  /\ ap_result' = apply(ap_rule, ap_value)
  /\ ap_pc' = IF ap_result'.exc = "" THEN "returned" ELSE "raised"
  /\ UNCHANGED << ap_rule, ap_value, inf_pc, inf_result >>

\* self.infer_data_type(value)
infer_data_type_call ==
  /\ inf_pc = "call"
  /\ inf_result' = infer_data_type(ap_value)
  /\ inf_pc' = IF inf_result'.exc = "" THEN "returned" ELSE "raised"
  /\ UNCHANGED << ap_rule, ap_value, ap_pc, ap_result >>

NextValue ==
  /\ \/ apply_call
     \/ infer_data_type_call
  /\ UNCHANGED << jobVars, engineVars, mapVars, factoryVars, parseVars, structVars,
                  transformVars, fixedVars, compareVars >>

SpecValue == ValueInit /\ [][NextValue]_vars

\* ======================================================== parser factory
MaxDelims == 2   \* occurrences of one delimiter in the text sample

\* ParserFactory.PARSER_MAP
PARSER_MAP ==
  [ csv |-> "CSVParser", xls |-> "ExcelParser", xlsx |-> "ExcelParser",
    txt |-> "TXTParser", tsv |-> "PipeDelimitedParser",
    dat |-> "FlatFileParser", fixed |-> "FlatFileParser" ]

\* the file names of the model
FilePaths == { "in.csv", "IN.CSV", "in.xlsx", "in.txt", "in.dat", "in.bin", "in" }

\* Path(file_path).suffix.lstrip('.')
Suffix(path) ==
  CASE path = "in.csv"  -> "csv"  [] path = "IN.CSV" -> "CSV"
    [] path = "in.xlsx" -> "xlsx" [] path = "in.txt" -> "txt"
    [] path = "in.dat"  -> "dat"  [] path = "in.bin" -> "bin"
    [] OTHER            -> ""

\* the first four bytes of a file
XLS_MAGIC == "D0CF11E0"
ZIP_MAGIC == "PK0304"

\* a file: whether it can be opened, its first bytes, and how often each
\* delimiter occurs in its first 1024 bytes read as text
FileContents ==
  [ readable : BOOLEAN, header : { XLS_MAGIC, ZIP_MAGIC, "text" },
    commas : 0..MaxDelims, tabs : 0..MaxDelims, pipes : 0..MaxDelims ]

\* the type hints of the model; "" is a hint that is falsy
FileTypes == { None, Some(""), Some("csv"), Some("CSV"), Some("pipe"), Some("pdf") }

Created(parser_class) == [ exc |-> "", class |-> parser_class, text |-> "" ]

\* ParserFactory.create_parser
create_parser(path, hint) ==
  LET extension == IF Truthy(hint) THEN PyLower(hint[1]) ELSE PyLower(Suffix(path))
  IN IF extension \in DOMAIN PARSER_MAP
     THEN Created(PARSER_MAP[extension])
     ELSE [ exc |-> "ValueError", class |-> "",
            text |-> "Unsupported file type: " \o extension ]

\* ParserFactory.detect_file_type
detect_file_type(path, c) ==
  LET extension == PyLower(Suffix(path))
  IN IF extension \in DOMAIN PARSER_MAP THEN Some(extension)
     ELSE IF ~ c.readable THEN None
     ELSE IF c.header = XLS_MAGIC THEN Some("xls")
     ELSE IF c.header = ZIP_MAGIC THEN Some("xlsx")
     ELSE IF c.commas > 0 /\ c.commas > c.tabs THEN Some("csv")
     ELSE IF c.tabs > 0 THEN Some("tsv")
     ELSE IF c.pipes > 0 THEN Some("pipe")
     ELSE None

\* a file, with or without a type hint, is about to be handed to the factory
FactoryInit ==
  /\ JobIdle /\ EngineIdle /\ MapIdle /\ ValueIdle /\ ParseIdle /\ StructIdle /\ TransformIdle
  /\ FixedIdle /\ CompareIdle
  /\ file_path \in FilePaths
  /\ file_type \in FileTypes
  /\ file_content \in FileContents
  /\ pf_pc = "call" /\ parser = << >>
  /\ df_pc = "call" /\ detected = << >>

create_parser_call ==
  /\ pf_pc = "call"
  /\ parser' = create_parser(file_path, file_type)
  /\ pf_pc' = IF parser'.exc = "" THEN "returned" ELSE "raised"
  /\ UNCHANGED << file_path, file_type, file_content, df_pc, detected >>

detect_file_type_call ==
  /\ df_pc = "call"
  /\ detected' = detect_file_type(file_path, file_content)
  /\ df_pc' = "returned"
  /\ UNCHANGED << file_path, file_type, file_content, pf_pc, parser >>

NextFactory ==
  /\ \/ create_parser_call
     \/ detect_file_type_call
  /\ UNCHANGED << jobVars, engineVars, mapVars, valueVars, parseVars, structVars,
                  transformVars, fixedVars, compareVars >>

SpecFactory == FactoryInit /\ [][NextFactory]_vars

\* ================================================= text and flat parsers
MaxLineLen == 4   \* characters of a line
MaxLines   == 2   \* lines of a file

LayoutSampleLines    == 5    \* sample_lines[:5]
StructureSampleLines == 10   \* lines[:10]

\* str.strip on a sequence of characters; the space is the only whitespace
\* of the model
RECURSIVE LStrip(_)
LStrip(s) == IF s # << >> /\ Head(s) = " " THEN LStrip(Tail(s)) ELSE s
RECURSIVE RStrip(_)
RStrip(s) == IF s # << >> /\ s[Len(s)] = " " THEN RStrip(SubSeq(s, 1, Len(s) - 1)) ELSE s
Strip(s) == RStrip(LStrip(s))

\* the str a sequence of characters stands for
RECURSIVE Text(_)
Text(s) == IF s = << >> THEN "" ELSE Head(s) \o Text(Tail(s))

\* s[a:b] for 0 <= a, 0 <= b
Slice(s, a, b) ==
  IF a >= Min(b, Len(s)) THEN << >> ELSE SubSeq(s, a + 1, Min(b, Len(s)))

\* the elements of a set of integers in increasing order
RECURSIVE Sorted(_)
Sorted(S) ==
  IF S = {} THEN << >>
  ELSE LET m == CHOOSE x \in S : \A y \in S : x <= y
       IN << m >> \o Sorted(S \ { m })

\* FieldDefinition.__init__
FieldDefinition(name, start, end) ==
  [ name |-> name, start |-> start, end |-> end, data_type |-> "string" ]

\* FieldDefinition.extract
extract(field, line) == Strip(Slice(line, field.start, field.end))

\* lines 64-69: the positions where every one of the first five lines has
\* two spaces
potential_breaks(sample_lines) ==
  LET header_line == sample_lines[1]
      sampled     == SubSeq(sample_lines, 1, Min(Len(sample_lines), LayoutSampleLines))
  IN { i \in 0..(Len(header_line) - 2) :
         \A k \in DOMAIN sampled :
           i < Len(sampled[k]) /\ Slice(sampled[k], i, i + 2) = << " ", " " >> }

\* FlatFileParser.auto_detect_layout
auto_detect_layout(sample_lines) ==
  IF Len(sample_lines) < 2 THEN << >>
  ELSE LET header_line == sample_lines[1]
           pb     == potential_breaks(sample_lines)
           kept   == { b \in pb :
                         \/ \A c \in pb : b <= c
                         \/ \E c \in pb : /\ c < b /\ b > c + 2
                                          /\ \A d \in pb : d < b => d <= c }
           breaks == << 0 >> \o Sorted(kept) \o << Len(header_line) >>
       IN [ i \in 1..(Len(breaks) - 1) |->
              LET start      == breaks[i]
                  end        == breaks[i + 1]
                  field_name == Text(Strip(Slice(header_line, start, end)))
              IN FieldDefinition(IF field_name = "" THEN "field_" \o ToString(i) ELSE field_name,
                                 start, end) ]

\* the dict built by assigning values[k] to keys[k] for k = 1, 2, ...
DictOf(keys, values) ==
  [ h \in Range(keys) |->
      values[CHOOSE k \in DOMAIN keys :
               keys[k] = h /\ \A m \in DOMAIN keys : keys[m] = h => m <= k] ]

Parsed(headers, rows) == [ exc |-> "", text |-> "", headers |-> headers, data |-> rows ]

\* FlatFileParser.parse (skip_header = False), lines 128-171, for the layout
\* self.layout holds after line 130
FlatFileParser_parse(ls, lay) ==
  IF lay = << >>
  THEN [ exc |-> "ValueError", headers |-> << >>, data |-> << >>,
         text |-> "Could not detect field layout. Please provide layout definition." ]
  ELSE LET headers == [ k \in DOMAIN lay |-> lay[k].name ]
           kept    == SelectSeq(ls, LAMBDA line : Strip(line) # << >>)
       IN Parsed(headers,
                 [ r \in DOMAIN kept |->
                     DictOf(headers, [ k \in DOMAIN lay |-> StrV(Text(extract(lay[k], kept[r]))) ]) ])

\* str.split(delimiter)
RECURSIVE Split(_, _)
Split(s, delimiter) ==
  LET at == Find(s, delimiter)
  IN IF at = -1 THEN << s >>
     ELSE << SubSeq(s, 1, at) >> \o Split(SubSeq(s, at + 2, Len(s)), delimiter)

\* TXTParser.detect_structure_type
detect_structure_type(ls) ==
  LET sampled == SubSeq(ls, 1, Min(Len(ls), StructureSampleLines))
      Has(ch) == \E k \in DOMAIN sampled : Find(sampled[k], ch) >= 0
  IN IF ls = << >> THEN "unstructured"
     ELSE IF Has(",")  THEN "csv"
     ELSE IF Has("\t") THEN "tsv"
     ELSE IF Has("|")  THEN "pipe_delimited"
     ELSE IF \A k \in DOMAIN sampled : Len(sampled[k]) = Len(ls[1]) THEN "fixed_width"
     ELSE "unstructured"

\* TXTParser.parse, lines 67-108
TXTParser_parse(ls) ==
  LET structure_type == detect_structure_type(ls)
  IN IF structure_type \in { "csv", "tsv", "pipe_delimited" }
     THEN LET delimiter == IF structure_type = "csv" THEN ","
                           ELSE IF structure_type = "tsv" THEN "\t" ELSE "|"
              Cells(line) == LET parts == Split(line, delimiter)
                             IN [ k \in DOMAIN parts |-> Text(parts[k]) ]
              headers == Cells(ls[1])
              kept    == SelectSeq(Tail(ls), LAMBDA line : Len(Cells(line)) = Len(headers))
          IN Parsed(headers,
                    [ r \in DOMAIN kept |->
                        DictOf(headers, [ k \in DOMAIN headers |-> StrV(Cells(kept[r])[k]) ]) ])
     ELSE Parsed(<< "line_number", "content" >>,
                 [ i \in DOMAIN ls |->
                     ("line_number" :> IntV(ToString(i))) @@ ("content" :> StrV(Text(ls[i]))) ])

\* the files of the model: every file of at most MaxLines lines of at most
\* MaxLineLen characters over a letter and the space, or over a letter and
\* the comma, and five files written out
SpacedLines    == SeqsUpTo({ "A", " " }, MaxLineLen)
DelimitedLines == SeqsUpTo({ "A", "," }, MaxLineLen)

ExampleFile ==
  << << "I","D"," "," ","N","A","M","E"," "," "," "," "," "," ","A","G","E" >>,
     << "1"," "," "," ","A","l","i","c","e"," "," "," "," "," ","3","0"," " >>,
     << "2"," "," "," ","B","o","b"," "," "," "," "," "," "," ","4","1"," " >> >>

Files ==
  SeqsUpTo(SpacedLines, MaxLines) \cup SeqsUpTo(DelimitedLines, MaxLines)
    \cup { ExampleFile,
           << << "A","B"," "," ","A","B" >>, << "1"," "," "," ","2"," " >> >>,
           << << "A","|","B" >>, << "1","|","2" >> >>,
           << << "A","\t","B" >>, << "1","\t","2" >> >>,
           << << "A","B" >>, << "C" >> >> }

\* the layout argument of FlatFileParser.__init__: none, or an explicit one
GivenLayouts ==
  { << >>, << FieldDefinition("ID", 0, 2), FieldDefinition("NAME", 2, 4) >> }

\* a file is handed to a FlatFileParser and to a TXTParser
ParseInit ==
  /\ JobIdle /\ EngineIdle /\ MapIdle /\ ValueIdle /\ FactoryIdle /\ StructIdle /\ TransformIdle
  /\ FixedIdle /\ CompareIdle
  /\ lines \in Files
  /\ given_layout \in GivenLayouts
  /\ layout = given_layout
  /\ flat_pc = "call" /\ flat_result = << >>
  /\ txt_pc = "call" /\ txt_result = << >>

\* FlatFileParser.parse: lines 129-130 set self.layout, then the table is
\* built or ValueError is raised
flat_parse ==
  /\ flat_pc = "call"
  /\ layout' = IF layout = << >> THEN auto_detect_layout(lines) ELSE layout
  /\ flat_result' = FlatFileParser_parse(lines, layout')
  /\ flat_pc' = IF flat_result'.exc = "" THEN "returned" ELSE "raised"
  /\ UNCHANGED << lines, given_layout, txt_pc, txt_result >>

\* TXTParser.parse
txt_parse ==
  /\ txt_pc = "call"
  /\ txt_result' = TXTParser_parse(lines)
  /\ txt_pc' = "returned"
  /\ UNCHANGED << lines, given_layout, layout, flat_pc, flat_result >>

NextParse ==
  /\ \/ flat_parse
     \/ txt_parse
  /\ UNCHANGED << jobVars, engineVars, mapVars, valueVars, factoryVars, structVars,
                  transformVars, fixedVars, compareVars >>

SpecParse == ParseInit /\ [][NextParse]_vars

\* ====================================================== detect_structure
MaxValues == 6   \* rows of the parsed table

TypeSampleValues == 100   \* values[:100]
SampleValues     == 5     \* values[:5]

\* the two families of detect_structure: CSVParser, PipeDelimitedParser and
\* ExcelParser keep the values that are not None, FlatFileParser and
\* TXTParser keep the truthy ones
ParserFamilies == { "CSVParser", "FlatFileParser" }

\* the values of a column: typed values of a pandas table, texts of a
\* fixed-width table
ColumnValues(parser_class) ==
  IF parser_class = "CSVParser"
  THEN { NoneV, StrV("hello"), IntV("42"), FloatV("42.5"), FloatV("inf") }
  ELSE { StrV(""), StrV("42"), StrV("42.5"), StrV("hello") }

\* csv_parser.py:111, flat_file_parser.py:181
column_values(parser_class, col) ==
  IF parser_class = "CSVParser"
  THEN SelectSeq(col, LAMBDA v : v # NoneV)
  ELSE SelectSeq(col, LAMBDA v : PyTruthy(v))

\* list.count
Count(seq, x) == Cardinality({ k \in DOMAIN seq : seq[k] = x })

\* max(set(sample_types), key=sample_types.count) returns the first type of
\* maximal count in the iteration order of the set, and the iteration order
\* of a set of str follows the hash seed of the process: any type of
\* maximal count can be the result
most_common(sample_types) ==
  { t \in Range(sample_types) :
      \A u \in Range(sample_types) : Count(sample_types, u) <= Count(sample_types, t) }

\* a parsed table's column is about to be analysed
StructInit ==
  /\ JobIdle /\ EngineIdle /\ MapIdle /\ ValueIdle /\ FactoryIdle /\ ParseIdle /\ TransformIdle
  /\ FixedIdle /\ CompareIdle
  /\ ds_parser \in ParserFamilies
  /\ column \in SeqsUpTo(ColumnValues(ds_parser), MaxValues)
  /\ ds_pc = "call" /\ column_type = "" /\ column_samples = << >>

\* the body of the loop over result.headers in detect_structure, for one
\* header; an exception of infer_data_type leaves detect_structure
detect_structure ==
  /\ ds_pc = "call"
  /\ LET values   == column_values(ds_parser, column)
         sampled  == SubSeq(values, 1, Min(Len(values), TypeSampleValues))
         inferred == [ k \in DOMAIN sampled |-> infer_data_type(sampled[k]) ]
     IN IF values = << >>
        THEN /\ column_type' = "null" /\ column_samples' = << >>
             /\ ds_pc' = "returned"
        ELSE IF \E k \in DOMAIN inferred : inferred[k].exc # ""
        THEN /\ ds_pc' = "raised"
             /\ UNCHANGED << column_type, column_samples >>
        ELSE /\ column_type' \in most_common([ k \in DOMAIN inferred |-> inferred[k].type ])
             /\ column_samples' = SubSeq(values, 1, Min(Len(values), SampleValues))
             /\ ds_pc' = "returned"
  /\ UNCHANGED << column, ds_parser >>

NextStruct ==
  /\ detect_structure
  /\ UNCHANGED << jobVars, engineVars, mapVars, valueVars, factoryVars, parseVars,
                  transformVars, fixedVars, compareVars >>

SpecStruct == StructInit /\ [][NextStruct]_vars

\* ========================================================= transform_file
\* OutputGeneratorFactory.GENERATORS
GENERATORS ==
  [ csv   |-> "CSVOutputGenerator",   excel |-> "ExcelOutputGenerator",
    xlsx  |-> "ExcelOutputGenerator", xls   |-> "ExcelOutputGenerator",
    json  |-> "JSONOutputGenerator",  tsv   |-> "TSVOutputGenerator",
    pipe  |-> "PipeDelimitedOutputGenerator",
    fixed |-> "FixedWidthOutputGenerator",
    txt   |-> "CSVOutputGenerator" ]

\* the output_format of a CreateTransformationJobRequest
OutputFormats == { "csv", "CSV", "fixed", "pdf", "PDF", "" }

\* Mutant: a name that is not registered gets the CSV generator.
create_generator_DefaultCSV(fmt) ==
  IF PyLower(fmt) \in DOMAIN GENERATORS
  THEN [ exc |-> "", msg |-> "", generator |-> GENERATORS[PyLower(fmt)] ]
  ELSE [ exc |-> "", msg |-> "", generator |-> "CSVOutputGenerator" ]

\* OutputGeneratorFactory.create_generator: the class registered under the
\* lower-cased name, a ValueError naming the format as it was given when
\* there is none
create_generator(fmt) ==
  IF PyLower(fmt) \in DOMAIN GENERATORS
  THEN [ exc |-> "", msg |-> "", generator |-> GENERATORS[PyLower(fmt)] ]
  ELSE [ exc |-> "ValueError", msg |-> "Unsupported output format: " \o fmt,
         generator |-> "" ]

\* POST /jobs/transform: the job record, and the task with the request's
\* output_format among its arguments
create_transformation_job_with(fmt) ==
  /\ create_transformation_job
  /\ output_format' = output_format @@ (NextJobId :> fmt)
  /\ UNCHANGED << output_files, file_metadata >>

\* the two progress reports of process_file_transformation (lines 129, 140)
process_file_transformation_progress(j) ==
  /\ running = j /\ tasks[j].kind = "transformation"
  /\ \/ /\ tasks[j].pc = "L129"
        /\ TaskWrite(j, PROCESSING, Some(20), None, None)
        /\ Goto(j, "L43", TRUE)
     \/ /\ tasks[j].pc = "L140"
        /\ TaskWrite(j, PROCESSING, Some(100), None, tasks[j].result)
        /\ Goto(j, "L130", TRUE)
  /\ last' = Op("process_file_transformation", j, TRUE)
  /\ UNCHANGED << active_tasks, running, cancelCalls, apiCalls, transformVars >>

\* TransformationService.transform_file, called at line 132 of
\* process_file_transformation; positions are its own line numbers.  Every
\* exception that leaves it is wrapped by the caller's "except Exception".
transform_file(j) ==
  /\ running = j /\ tasks[j].kind = "transformation"
  /\ \/ /\ tasks[j].pc = "L43"       \* parse_file raises
        /\ \E e \in InnerErrors : Raise(j, "File transformation failed: ", e)
        /\ UNCHANGED << output_files, file_metadata >>
     \/ /\ tasks[j].pc = "L43"       \* parse_file returns, lines 44-72
        /\ \E full_data \in SeqsUpTo(Rows, 1) :
             IF full_data = << >>
             THEN Raise(j, "File transformation failed: ", "No data found in input file")
             ELSE Goto(j, "L75", FALSE)
        /\ UNCHANGED << output_files, file_metadata >>
     \/ /\ tasks[j].pc = "L75"
        /\ LET made == create_generator(output_format[j])
           IN IF made.exc # ""
              THEN Raise(j, "File transformation failed: ", made.msg)
              ELSE Goto(j, "L82", FALSE)
        /\ UNCHANGED << output_files, file_metadata >>
     \/ /\ tasks[j].pc = "L82"       \* generate writes the file, lines 82-85
        /\ output_files' = output_files \cup
                             { [ job |-> j, file_type |-> output_format[j] ] }
        /\ Goto(j, "L97", FALSE)
        /\ UNCHANGED file_metadata
     \/ /\ tasks[j].pc = "L82"       \* generate raises
        /\ \E e \in InnerErrors : Raise(j, "File transformation failed: ", e)
        /\ UNCHANGED << output_files, file_metadata >>
     \/ /\ tasks[j].pc = "L97"       \* the insert, lines 97-98
        /\ file_metadata' = file_metadata \cup
                              { [ job |-> j, file_type |-> output_format[j] ] }
        /\ \E id \in { None, Some(OutputFileId) } :
             tasks' = [tasks EXCEPT ![j].pc = "L140", ![j].result = id]
        /\ UNCHANGED output_files
     \/ /\ tasks[j].pc = "L97"       \* the insert raises
        /\ \E e \in InnerErrors : Raise(j, "File transformation failed: ", e)
        /\ UNCHANGED << output_files, file_metadata >>
  /\ last' = Op("transform_file", j, TRUE)
  /\ UNCHANGED << jobs, active_tasks, running, cancelCalls, apiCalls, output_format >>

TransformInit ==
  /\ JobIdle /\ EngineIdle /\ MapIdle /\ ValueIdle /\ FactoryIdle /\ ParseIdle
  /\ StructIdle /\ TransformIdle /\ FixedIdle /\ CompareIdle

\* what a step of a transformation job leaves alone
TransformFrame ==
  UNCHANGED << engineVars, mapVars, valueVars, factoryVars, parseVars, structVars,
               fixedVars, compareVars >>

NextTransform ==
  \/ \E fmt \in OutputFormats : create_transformation_job_with(fmt) /\ TransformFrame
  \/ \E j \in 1..MaxJobs :
       \/ process_file_transformation_progress(j) /\ TransformFrame
       \/ transform_file(j) /\ TransformFrame
       \/ execute_task_start(j) /\ UNCHANGED transformVars /\ TransformFrame
       \/ execute_task_finish(j) /\ UNCHANGED transformVars /\ TransformFrame
       \/ done_callback(j) /\ UNCHANGED transformVars /\ TransformFrame
       \/ cancel_job(j) /\ UNCHANGED transformVars /\ TransformFrame

SpecTransform == TransformInit /\ [][NextTransform]_vars

\* ====================================================== fixed-width writer
DefaultWidth == 20   \* self.column_widths.get(header, 20)

HeaderNames == { "ID", "NAME" }

\* the characters of a header name
Chars(name) ==
  CASE name = "ID"   -> << "I", "D" >>
    [] name = "NAME" -> << "N", "A", "M", "E" >>

\* str(value) of the values a row holds, as characters
Cells == { << >>, << "7" >>, << "h", "e", "l", "l", "o" >> }

\* the rows: dicts from some of the header names to values
OutRows == UNION { [ keys -> Cells ] : keys \in SUBSET HeaderNames }

\* the width maps: dicts from some of the header names to a width
WidthMaps == UNION { [ keys -> { 3, 5 } ] : keys \in SUBSET HeaderNames }

\* str.ljust
ljust(s, width) ==
  IF Len(s) >= width THEN s ELSE s \o [ k \in 1..(width - Len(s)) |-> " " ]

\* self.column_widths.get(header, 20)
width_of(header) ==
  IF header \in DOMAIN column_widths THEN column_widths[header] ELSE DefaultWidth

\* lines 130-133: the header line
RECURSIVE header_line(_)
header_line(hs) ==
  IF hs = << >> THEN << >>
  ELSE ljust(Chars(Head(hs)), width_of(Head(hs))) \o header_line(Tail(hs))

\* lines 138-142: the line of one row
RECURSIVE data_line(_, _)
data_line(row, hs) ==
  IF hs = << >> THEN << >>
  ELSE LET header == Head(hs)
           value  == IF header \in DOMAIN row THEN row[header] ELSE << >>
       IN Slice(ljust(value, width_of(header)), 0, width_of(header))
            \o data_line(row, Tail(hs))

\* a generator as FixedWidthOutputGenerator.__init__ leaves it
FixedInit ==
  /\ JobIdle /\ EngineIdle /\ MapIdle /\ ValueIdle /\ FactoryIdle /\ ParseIdle
  /\ StructIdle /\ TransformIdle /\ CompareIdle
  /\ gen_headers \in SeqsUpTo(HeaderNames, MaxColumns)
  /\ gen_data \in SeqsUpTo(OutRows, MaxRows)
  /\ column_widths \in WidthMaps
  /\ gen_pc = "call" /\ written = << >>

\* FixedWidthOutputGenerator.generate
generate ==
  /\ gen_pc = "call"
  /\ written' = << header_line(gen_headers) >>
                  \o [ k \in DOMAIN gen_data |-> data_line(gen_data[k], gen_headers) ]
  /\ gen_pc' = "returned"
  /\ UNCHANGED << gen_headers, gen_data, column_widths >>

NextFixed ==
  /\ generate
  /\ UNCHANGED << jobVars, engineVars, mapVars, valueVars, factoryVars, parseVars,
                  structVars, transformVars, compareVars >>

SpecFixed == FixedInit /\ [][NextFixed]_vars

\* ====================================================== compare_structures
\* the columns of the two analysed structures are about to be compared
CompareInit ==
  /\ JobIdle /\ EngineIdle /\ MapIdle /\ ValueIdle /\ FactoryIdle /\ ParseIdle
  /\ StructIdle /\ TransformIdle /\ FixedIdle
  /\ cs_input \in SeqsUpTo(ColumnNames, MaxColumns)
  /\ cs_reference \in SeqsUpTo(ColumnNames, MaxColumns)
  /\ cs_pc = "call" /\ comparison = << >>

\* ParsingService.compare_structures, lines 144-168; the three lists are
\* list(<set>), whose order is not fixed, and are kept as sets;
\* match_percentage is kept as the fraction it is computed from
compare_structures ==
  /\ cs_pc = "call"
  /\ LET input_cols     == Range(cs_input)
         reference_cols == Range(cs_reference)
         exact_matches  == input_cols \cap reference_cols
         input_only     == input_cols \ reference_cols
         reference_only == reference_cols \ reference_cols
     IN comparison' =
          [ exact_matches          |-> exact_matches,
            input_only_columns     |-> input_only,
            reference_only_columns |-> reference_only,
            match_percentage       |->
              [ num |-> Cardinality(exact_matches) * 100,
                den |-> Max(Cardinality(input_cols), 1) ] ]
  /\ cs_pc' = "returned"
  /\ UNCHANGED << cs_input, cs_reference >>

\* one of the two analyze_structure calls (lines 136-141) raises
compare_structures_raises ==
  /\ cs_pc = "call"
  /\ cs_pc' = "raised"
  /\ UNCHANGED << cs_input, cs_reference, comparison >>

NextCompare ==
  /\ \/ compare_structures
     \/ compare_structures_raises
  /\ UNCHANGED << jobVars, engineVars, mapVars, valueVars, factoryVars, parseVars,
                  structVars, transformVars, fixedVars >>

SpecCompare == CompareInit /\ [][NextCompare]_vars

\* ================================================================ claims
Terminal == { COMPLETED, FAILED, CANCELLED }

TaskOps == { "execute_task", "process_file_analysis", "process_mapping_generation",
             "process_file_transformation", "process_batch_files" }

\* a call of BackgroundTaskManager.cancel_job(j) is this step
CancelCalled(j) == cancelCalls' = cancelCalls + 1 /\ last'.job = j

\* ---- C1
\* C1 as stated: a terminal status never changes, and before that the
\* status moves only pending -> processing -> {completed, failed, cancelled}.
C1_Original ==
  [][\A j \in DOMAIN jobs :
       \/ jobs'[j].status = jobs[j].status
       \/ jobs[j].status = PENDING /\ jobs'[j].status = PROCESSING
       \/ jobs[j].status = PROCESSING /\ jobs'[j].status \in Terminal]_vars

\* C1 amended: a terminal status (completed, failed, cancelled) is never
\* changed by a later write, and before that the status moves only
\* pending -> processing -> {completed, failed, cancelled}, or directly
\* pending -> cancelled when cancel_job is accepted before the task's
\* first step.
C1_StatusOneDirectional ==
  [][\A j \in DOMAIN jobs :
       \/ jobs'[j].status = jobs[j].status
       \/ jobs[j].status = PENDING /\ jobs'[j].status \in { PROCESSING, CANCELLED }
       \/ jobs[j].status = PROCESSING /\ jobs'[j].status \in Terminal]_vars

\* a task cancelled before its first step has ended: the job went from
\* pending to cancelled and stayed there
C1_Witness ==
  \E j \in DOMAIN tasks :
    /\ jobs[j].status = CANCELLED /\ tasks[j].state = "done"
    /\ tasks[j].writes = 0 /\ j \notin active_tasks

\* ---- C2
\* C2: a cancel_job call on a registered unfinished task returns True and
\* leaves the status cancelled; once a task's cancellation was requested,
\* the task writes nothing more and the status stays cancelled.
C2_CancelWins ==
  [][\A j \in DOMAIN jobs :
       /\ (CancelCalled(j) /\ j \in active_tasks /\ tasks[j].state # "done")
            => (last'.ret /\ jobs'[j].status = CANCELLED)
       /\ (j \in DOMAIN tasks /\ tasks[j].cancelling)
            => /\ tasks'[j].writes = tasks[j].writes
               /\ jobs[j].status = CANCELLED /\ jobs'[j] = jobs[j]]_vars

\* a mapping task cancelled while suspended in the LLM call has ended
C2_Witness ==
  \E j \in DOMAIN tasks :
    /\ tasks[j].cancelling /\ tasks[j].outcome = "cancelled"
    /\ tasks[j].kind = "mapping" /\ jobs[j].progress = 60
    /\ jobs[j].status = CANCELLED

\* ---- C3
\* C3: a cancel_job call on a job without a registered unfinished task
\* returns False and changes neither the job records nor the tasks nor the
\* registry.
C3_CancelNoOp ==
  [][\A j \in DOMAIN jobs :
       (CancelCalled(j) /\ ~ (j \in active_tasks /\ tasks[j].state # "done"))
         => /\ last'.op = "cancel_job" /\ last'.ret = FALSE
            /\ jobs' = jobs /\ tasks' = tasks /\ active_tasks' = active_tasks]_vars

\* cancel_job was just refused for a job whose task had completed and was
\* still in the registry
C3_Witness ==
  /\ last.op = "cancel_job" /\ last.ret = FALSE
  /\ jobs[last.job].status = COMPLETED /\ last.job \in active_tasks

\* ---- C4
\* C4: a job that was never started is never processing, and a cancel
\* request for it (cancel_job, or DELETE by its owner) leaves it cancelled.
C4_NeverStartedCancel ==
  [][\A j \in DOMAIN jobs :
       j \notin DOMAIN tasks' =>
         /\ jobs'[j].status # PROCESSING
         /\ ( /\ last'.job = j
              /\ \/ cancelCalls' = cancelCalls + 1
                 \/ apiCalls' = apiCalls + 1 /\ last'.op = "jobs_cancel_job" /\ last'.ret )
            => jobs'[j].status = CANCELLED]_vars

\* ---- C5
\* C5: every persisted progress is within 0..100, and a write that leaves
\* the status processing never lowers the progress.
C5_ProgressMonotone ==
  [][\A j \in DOMAIN jobs :
       /\ jobs'[j].progress \in 0..100
       /\ jobs'[j].status = PROCESSING => jobs'[j].progress >= jobs[j].progress]_vars

\* a batch of two items has reported 50 and then 100
C5_Witness ==
  \E j \in DOMAIN tasks :
    /\ tasks[j].kind = "batch" /\ tasks[j].n = 2 /\ tasks[j].idx = 1
    /\ tasks[j].pc = "L192" /\ jobs[j].progress = 100 /\ jobs[j].status = PROCESSING

\* ---- C6
\* C6: the write that follows a raising body sets failed, records the error
\* text and keeps the progress; a task whose body raised ends with the job
\* failed and the text recorded, never completed.
C6_BodyErrorFails ==
  [][\A j \in DOMAIN tasks :
       /\ (tasks[j].err # None /\ tasks[j].state = "running")
            => /\ jobs'[j].status = FAILED
               /\ jobs'[j].error_message = tasks[j].err
               /\ jobs'[j].progress = jobs[j].progress
       /\ (tasks'[j].err # None /\ tasks'[j].state = "done")
            => /\ jobs'[j].status = FAILED
               /\ jobs'[j].error_message = tasks'[j].err]_vars

\* an analysis job whose parser raised without a message has failed at 30
C6_Witness ==
  \E j \in DOMAIN tasks :
    /\ jobs[j].status = FAILED /\ jobs[j].progress = 30
    /\ jobs[j].error_message = Some("File analysis failed: ")
    /\ tasks[j].outcome = "exception"

\* ---- C7
\* C7: a task whose body returned has left the job completed at 100 with a
\* result reference recorded.
C7_SuccessRecordsResult ==
  \A j \in DOMAIN tasks :
    tasks[j].outcome = "result"
      => /\ jobs[j].status = COMPLETED /\ jobs[j].progress = 100
         /\ jobs[j].result_file_id # None

\* ---- C8
\* C8: the status and the progress of a job are changed only by the job's
\* task and by an accepted cancel_job.
C8_SingleWriter ==
  [][\A j \in DOMAIN jobs :
       (jobs'[j].status # jobs[j].status \/ jobs'[j].progress # jobs[j].progress)
         => /\ last'.job = j
            /\ last'.op \in TaskOps \cup { "cancel_job" }]_vars

\* ---- C9
\* the rows of data whose transformation raises / returns
FailingRows == { i \in 1..Len(data) : transform_row(rules, data[i], << >>).exc # "" }
PassingRows == (1..Len(data)) \ FailingRows

\* C9: transform_data never raises, and when it has returned the result
\* holds, in input order, the records of exactly the rows that did not
\* raise, and validation_errors holds, in input order, one entry per raising
\* row with its 0-based index, its error text and the row itself.
C9_RowIsolation ==
  /\ epc # "raised"
  /\ epc = "done" =>
       /\ Len(transformed_data) = Cardinality(PassingRows)
       /\ Len(validation_errors) = Cardinality(FailingRows)
       /\ Len(transformed_data) + Len(validation_errors) = Len(data)
       /\ \A i \in PassingRows :
            transformed_data[Cardinality({ k \in PassingRows : k <= i })]
              = transform_row(rules, data[i], << >>).val
       /\ \A i \in FailingRows :
            validation_errors[Cardinality({ k \in FailingRows : k <= i })]
              = [ row_index |-> i - 1,
                  error     |-> ErrorText(transform_row(rules, data[i], << >>).exc),
                  row_data  |-> data[i] ]

\* two rows, the first one raised and the second one was transformed
C9_Witness ==
  /\ epc = "done" /\ Len(data) = 2
  /\ Len(validation_errors) = 1 /\ validation_errors[1].row_index = 0
  /\ Len(transformed_data) = 1

\* ---- C10
\* the target columns the mapping configuration names
ConfiguredTargets ==
  { TargetOf(mapping_config[m])[1] :
      m \in { k \in 1..Len(mapping_config) : Truthy(TargetOf(mapping_config[k])) } }

\* the entries that have both a source and a target column
CompleteEntries ==
  { m \in 1..Len(mapping_config) :
      Truthy(mapping_config[m].input_column) /\ Truthy(TargetOf(mapping_config[m])) }

\* the last complete entry that names target column t
LastEntryFor(t) ==
  CHOOSE m \in CompleteEntries :
    /\ TargetOf(mapping_config[m])[1] = t
    /\ \A k \in CompleteEntries : TargetOf(mapping_config[k])[1] = t => k <= m

\* C10 as stated: every record transform_row returns has exactly the target
\* columns of the mapping configuration as its keys.
C10_Original ==
  \A k \in 1..Len(transformed_data) : DOMAIN transformed_data[k] = ConfiguredTargets

\* C10 amended: every record transform_row returns has as its keys exactly
\* the target columns of the entries that have both a source and a target
\* column, and the value of a key is the one produced by the last such
\* entry naming it.
C10_KeysAndLastWins ==
  epc \in { "loop", "done" } =>
    \A i \in 1..data_idx :
      LET r == transform_row(rules, data[i], << >>) IN
      r.exc = "" =>
        /\ DOMAIN r.val = { TargetOf(mapping_config[m])[1] : m \in CompleteEntries }
        /\ \A t \in DOMAIN r.val :
             LET e == mapping_config[LastEntryFor(t)] IN
             r.val[t] = apply(TransformationRule(e.input_column[1], t, e.transformation),
                              Get(data[i], e.input_column[1])).val

\* two rules write X from column b, the last one (uppercase) decides the
\* value, and column a, which has no rule, is not in the record
C10_Witness ==
  /\ epc = "done" /\ Len(rules) = 2 /\ Len(data) >= 1
  /\ rules[1].target_column = "X" /\ rules[2].target_column = "X"
  /\ rules[1].transformation_type = "int" /\ rules[2].transformation_type = "uppercase"
  /\ rules[1].source_column = "b" /\ rules[2].source_column = "b"
  /\ data[1] = [ a |-> StrV("inf"), b |-> StrV("7") ]
  /\ transformed_data[1] = ("X" :> StrV("7"))

\* ---- C11
\* no part of the reply is a JSON document
Unparsable(content) ==
  ~ \E a, b \in DOMAIN content : a <= b /\ json_loads(SubSeq(content, a, b)).exc = ""

\* C11: when generate_mappings has returned after the LLM collaborator was
\* not configured, raised an error or gave a reply that cannot be parsed, the
\* result is the rule-based fallback: it has a mappings list and
\* fallback_used = true.
C11_FallbackAlways ==
  ( /\ gm_pc = "returned"
    /\ \/ llm.kind \in { "not_configured", "error" }
       \/ llm.kind = "reply" /\ Unparsable(llm.content) )
    => /\ { "mappings", "fallback_used" } \subseteq DOMAIN gm_result
       /\ gm_result.fallback_used

\* ---- C12
\* C12: in a fallback result every mapping is either an identical-name
\* mapping with confidence 100 or, for an input column without an
\* identical reference name, a mapping with confidence 90 to the first
\* reference column of equal normalised name that no earlier mapping used;
\* every input column with an identical reference name has its 100 mapping,
\* an input column stays unmapped only when no unused reference column of
\* equal normalised name exists, unmapped_reference_columns lists exactly the
\* reference columns no mapping uses, and no reference column is used by two
\* mappings.
C12_FallbackRules ==
  (gm_pc = "returned" /\ "fallback_used" \in DOMAIN gm_result) =>
    LET ms            == gm_result.mappings
        Used          == { ms[h].reference_column : h \in DOMAIN ms }
        UsedBefore(k) == { ms[h].reference_column : h \in 1..(k - 1) }
        MappedInputs  == { ms[h].input_column : h \in DOMAIN ms }
        SameName(c)   == { p \in DOMAIN reference_columns :
                             Normalize(reference_columns[p]) = Normalize(c) }
    IN /\ \A k \in DOMAIN ms :
            \/ /\ ms[k].confidence = 100
               /\ ms[k].reference_column = ms[k].input_column
               /\ ms[k].input_column \in Range(reference_columns)
            \/ /\ ms[k].confidence = 90
               /\ ms[k].input_column \in Range(input_columns) \ Range(reference_columns)
               /\ \E p \in SameName(ms[k].input_column) :
                    /\ reference_columns[p] = ms[k].reference_column
                    /\ reference_columns[p] \notin UsedBefore(k)
                    /\ \A q \in SameName(ms[k].input_column) :
                         q < p => reference_columns[q] \in UsedBefore(k)
       /\ \A c \in Range(input_columns) :
            IF c \in Range(reference_columns)
            THEN \E k \in DOMAIN ms : ms[k].input_column = c /\ ms[k].confidence = 100
            ELSE \/ c \in MappedInputs
                 \/ /\ c \in Range(gm_result.unmapped_input_columns)
                    /\ \A p \in SameName(c) : reference_columns[p] \in Used
       /\ gm_result.unmapped_reference_columns
            = SelectSeq(reference_columns, LAMBDA r : r \notin Used)
       /\ \A k, h \in DOMAIN ms :
            k # h => ms[k].reference_column # ms[h].reference_column

\* ---- C13
\* the conversion of the rule's kind does not produce a number for the value
NotANumber(kind, value) ==
  LET f == PyFloat(value) IN
  \/ f.exc # ""
  \/ kind = "int" /\ PyIntOfFloat(f.f).exc # ""

\* C13: apply returns the rule's default value for a null input, and for
\* the int and float kinds a non-null input that cannot be converted to a
\* number makes apply return null; apply does not raise in either case.
C13_ApplyNullSafe ==
  ap_pc \in { "returned", "raised" } =>
    /\ ap_value = NoneV =>
         ap_pc = "returned" /\ ap_result.val = ap_rule.default_value
    /\ ( /\ ap_rule.transformation_type \in { "int", "float" }
         /\ ap_value # NoneV
         /\ NotANumber(ap_rule.transformation_type, ap_value) )
         => ap_pc = "returned" /\ ap_result.val = NoneV

\* ---- C14
HasFraction(value) == value \in { StrV("42.5"), FloatV("42.5") }

DateLike(value) ==
  /\ value.t = "str"
  /\ Len(DateParts(value.v)) >= 2
  /\ \A k \in DOMAIN DateParts(value.v) : IsDigit(DateParts(value.v)[k])

\* C14: infer_data_type never raises, classifies "" as null, "42" as
\* integer, "42.5" as float, "true" as boolean, "2024-01-05" as date and
\* "hello" as string, never classifies a value with a fractional part as
\* integer, and never classifies a date-like text as integer or float.
C14_InferTotalOrdered ==
  inf_pc \in { "returned", "raised" } =>
    /\ inf_pc = "returned"
    /\ ap_value = StrV("")           => inf_result.type = "null"
    /\ ap_value = StrV("42")         => inf_result.type = "integer"
    /\ ap_value = StrV("42.5")       => inf_result.type = "float"
    /\ ap_value = StrV("true")       => inf_result.type = "boolean"
    /\ ap_value = StrV("2024-01-05") => inf_result.type = "date"
    /\ ap_value = StrV("hello")      => inf_result.type = "string"
    /\ HasFraction(ap_value) => inf_result.type # "integer"
    /\ DateLike(ap_value)    => inf_result.type \notin { "integer", "float" }

\* ---- C15
\* the delimiter that occurs strictly most often in the sample, "" if none does
MostFrequent(c) ==
  CASE c.commas > c.tabs  /\ c.commas > c.pipes -> "comma"
    [] c.tabs   > c.commas /\ c.tabs  > c.pipes -> "tab"
    [] c.pipes  > c.commas /\ c.pipes > c.tabs  -> "pipe"
    [] OTHER -> ""

\* C15: when create_parser has ended, a registered type hint decided the
\* parser; without a hint a registered filename extension decided it;
\* without a hint and without a registered extension the content decided
\* it (a spreadsheet signature selects the spreadsheet parser, otherwise the
\* strictly most frequent of comma, tab and pipe selects the delimited
\* parser for it, and a text without any of them selects the text parser);
\* and create_parser raised only if no hint was given.
C15_SelectionOrder ==
  pf_pc \in { "returned", "raised" } =>
    LET hinted    == Truthy(file_type)
        extension == PyLower(Suffix(file_path))
        sniffed   == ~ hinted /\ extension \notin DOMAIN PARSER_MAP /\ file_content.readable
    IN /\ (hinted /\ PyLower(file_type[1]) \in DOMAIN PARSER_MAP)
            => parser = Created(PARSER_MAP[PyLower(file_type[1])])
       /\ (~ hinted /\ extension \in DOMAIN PARSER_MAP)
            => parser = Created(PARSER_MAP[extension])
       /\ (sniffed /\ file_content.header \in { XLS_MAGIC, ZIP_MAGIC })
            => parser = Created("ExcelParser")
       /\ (sniffed /\ file_content.header = "text" /\ MostFrequent(file_content) = "comma")
            => parser = Created("CSVParser")
       /\ (sniffed /\ file_content.header = "text" /\ MostFrequent(file_content) \in { "tab", "pipe" })
            => parser = Created("PipeDelimitedParser")
       /\ (sniffed /\ file_content.header = "text"
             /\ file_content.commas + file_content.tabs + file_content.pipes = 0)
            => parser = Created("TXTParser")
       /\ pf_pc = "raised" => ~ hinted

\* ---- C16
\* C16: when FlatFileParser.parse has ended for a parser without an
\* explicit layout and no position exists where every sampled line has two
\* consecutive spaces, parse raised the layout error and returned no table.
C16_NoBoundaryFails ==
  ( /\ flat_pc \in { "returned", "raised" }
    /\ given_layout = << >>
    /\ (lines = << >> \/ potential_breaks(lines) = {}) )
    => flat_pc = "raised" /\ flat_result.exc = "ValueError"

\* ---- C17
\* C17: the layout auto-detected from a sample of at least two lines has
\* start < end in every field, no field reaching past the start of the
\* next, and the fields covering the header line from 0 to its length; for
\* the header "ID  NAME      AGE" with two data lines it has 3 fields.
C17_LayoutWellFormed ==
  ( /\ flat_pc \in { "returned", "raised" }
    /\ given_layout = << >>
    /\ Len(lines) >= 2 )
    => /\ \A i \in DOMAIN layout : layout[i].start < layout[i].end
       /\ \A i \in 1..(Len(layout) - 1) : layout[i].end <= layout[i + 1].start
       /\ layout # << >>
       /\ layout[1].start = 0
       /\ layout[Len(layout)].end = Len(lines[1])
       /\ \A i \in 1..(Len(layout) - 1) : layout[i].end >= layout[i + 1].start
       /\ lines = ExampleFile => Len(layout) = 3

\* ---- C18
\* the table has pairwise distinct column names, and every row has only
\* column names as its keys
TableWellFormed(table) ==
  /\ \A a, b \in DOMAIN table.headers : a # b => table.headers[a] # table.headers[b]
  /\ \A r \in DOMAIN table.data : DOMAIN table.data[r] \subseteq Range(table.headers)

\* C18: every table returned by TXTParser.parse or FlatFileParser.parse has
\* pairwise distinct column names in headers, and the key set of every row
\* record is a subset of headers.
C18_HeadersDistinct ==
  /\ txt_pc = "returned"  => TableWellFormed(txt_result)
  /\ flat_pc = "returned" => TableWellFormed(flat_result)

\* ---- C19
NonNull(v) == v \notin { NoneV, StrV("") }

\* C19: when detect_structure has returned, a column without a non-null
\* value has type null and no samples; otherwise its type is the type that
\* occurs most often among the inferred types of its first 100 non-null
\* values, the one met first in the column among those of equal count; at
\* most 5 samples are kept and all of them are non-null.
C19_MostFrequentFirstSeen ==
  ds_pc = "returned" =>
    LET nn    == SelectSeq(column, NonNull)
        first == SubSeq(nn, 1, Min(Len(nn), 100))
        types == [ k \in DOMAIN first |-> infer_data_type(first[k]).type ]
        FirstAt(t) == CHOOSE k \in DOMAIN types :
                        types[k] = t /\ \A m \in DOMAIN types : types[m] = t => k <= m
    IN /\ Len(column_samples) <= 5
       /\ \A k \in DOMAIN column_samples : NonNull(column_samples[k])
       /\ IF nn = << >>
          THEN column_type = "null"
          ELSE /\ column_type \in Range(types)
               /\ \A u \in Range(types) :
                    \/ Count(types, u) < Count(types, column_type)
                    \/ /\ Count(types, u) = Count(types, column_type)
                       /\ FirstAt(column_type) <= FirstAt(u)

\* ---- C20
Unregistered(fmt) == PyLower(fmt) \notin DOMAIN GENERATORS

UnsupportedOutputFormat(fmt) ==
  "File transformation failed: Unsupported output format: " \o fmt

RECURSIVE WidthSum(_)
WidthSum(hs) == IF hs = << >> THEN 0 ELSE width_of(Head(hs)) + WidthSum(Tail(hs))

\* C21: every line generate has written, the header line and each data
\* line, is as long as the sum of the column widths (20 for a column the
\* width map has no entry for), each field taking exactly its width.
C21_LinesHaveWidth ==
  gen_pc = "returned" =>
    /\ Len(written) = Len(gen_data) + 1
    /\ \A k \in DOMAIN written : Len(written[k]) = WidthSum(gen_headers)

\* ---- C22
\* C22: in a batch job every step of the body attempts at most the next
\* item of the list, and the attempt ends in exactly one of processed and
\* failed; the outcomes always add up to the number of items attempted,
\* which never exceeds the total; the body never raises; it returns only
\* when every item was attempted; and a task that ran the body ends with
\* the job completed.
C22_BatchNeverAborts ==
  /\ [](\A j \in DOMAIN tasks :
          tasks[j].kind = "batch" =>
            /\ tasks[j].processed + tasks[j].failed = tasks[j].idx
            /\ tasks[j].idx <= tasks[j].n
            /\ tasks[j].pc # "L141" /\ tasks[j].err = None
            /\ tasks[j].outcome # "exception"
            /\ tasks[j].pc = "L130" => tasks[j].idx = tasks[j].n
            /\ tasks[j].outcome = "result"
                 => /\ tasks[j].idx = tasks[j].n
                    /\ jobs[j].status = COMPLETED /\ jobs[j].progress = 100)
  /\ [][\A j \in DOMAIN tasks :
          tasks[j].kind = "batch" =>
            \/ /\ tasks'[j].idx = tasks[j].idx
               /\ tasks'[j].processed = tasks[j].processed
               /\ tasks'[j].failed = tasks[j].failed
            \/ /\ tasks'[j].idx = tasks[j].idx + 1
               /\ tasks'[j].processed + tasks'[j].failed
                    = tasks[j].processed + tasks[j].failed + 1
               /\ tasks'[j].processed >= tasks[j].processed
               /\ tasks'[j].failed >= tasks[j].failed]_vars

\* a batch of two items, one processed and one failed, has completed
C22_Witness ==
  \E j \in DOMAIN tasks :
    /\ tasks[j].kind = "batch" /\ tasks[j].n = 2
    /\ tasks[j].processed = 1 /\ tasks[j].failed = 1
    /\ tasks[j].outcome = "result" /\ jobs[j].status = COMPLETED

\* ---- C23
\* C23: while a batch body is between a progress write and the end of the
\* item that follows it, the persisted progress is floor(k * 100 / N) for
\* the k items that have finished, processed or failed, so far.
C23_ProgressCountsFinished ==
  \A j \in DOMAIN tasks :
    (tasks[j].kind = "batch" /\ tasks[j].state = "running" /\ tasks[j].pc = "L192")
      => jobs[j].progress
           = ((tasks[j].processed + tasks[j].failed) * 100) \div tasks[j].n

\* ---- C24
\* C24 as stated: the registry holds an entry for a job id exactly when a
\* task of that job is unfinished.
C24_Original ==
  \A j \in DOMAIN jobs :
    j \in active_tasks <=> (j \in DOMAIN tasks /\ tasks[j].state # "done")

\* C24: the registry holds entries only for jobs whose task was started,
\* and it holds the entry of every unfinished task; the entry is inserted
\* by the step that starts the task; an entry is removed only when its own
\* task is finished, so no removal takes the entry of an unfinished task;
\* an entry that was removed is never inserted again; every job id has at
\* most one task, its task once started is never replaced by another.  A
\* finished task stays registered only until its done callback has run.
C24_RegistryTracksTasks ==
  /\ [](/\ active_tasks \subseteq DOMAIN tasks
        /\ DOMAIN tasks \subseteq DOMAIN jobs
        /\ \A j \in DOMAIN tasks : tasks[j].state # "done" => j \in active_tasks)
  /\ [][\A j \in DOMAIN jobs' :
          /\ (j \notin DOMAIN tasks /\ j \in DOMAIN tasks') => j \in active_tasks'
          /\ (j \in active_tasks /\ j \notin active_tasks')
               => /\ tasks[j].state = "done"
                  /\ active_tasks' = active_tasks \ { j }
          /\ (j \in DOMAIN tasks /\ j \notin active_tasks) => j \notin active_tasks'
          /\ j \in DOMAIN tasks
               => /\ j \in DOMAIN tasks'
                  /\ tasks'[j].kind = tasks[j].kind
                  /\ tasks[j].state = "done" => tasks'[j] = tasks[j]]_vars

\* a task has finished and its done callback has taken it out of the
\* registry
C24_Witness ==
  \E j \in DOMAIN tasks :
    /\ tasks[j].state = "done" /\ j \notin active_tasks
    /\ last.op = "done_callback" /\ last.job = j

C26_HeaderNotARow ==
  (flat_pc = "returned" /\ given_layout = << >>) =>
    Len(flat_result.data)
      = Len(SelectSeq(Tail(lines), LAMBDA line : Strip(line) # << >>))

\* ---- C27
\* the str conversion of a kind
Converted(kind, text) ==
  CASE kind = "uppercase" -> PyUpper(text)
    [] kind = "lowercase" -> PyLower(text)
    [] kind = "trim"      -> PyStrip(text)
    [] kind = "date"      -> text

\* C27: for a non-null input, the int and float kinds return the number the
\* input converts to whenever it converts to one, zero included, and the
\* uppercase, lowercase, trim and date kinds return the converted str of
\* the input; none of them returns null.
C27_NoNullFromConvertible ==
  (ap_pc \in { "returned", "raised" } /\ ap_value # NoneV) =>
    LET kind == ap_rule.transformation_type IN
    /\ (kind \in { "int", "float" } /\ ~ NotANumber(kind, ap_value))
         => /\ ap_pc = "returned"
            /\ ap_result.val =
                 IF kind = "int"
                 THEN IntV(PyIntOfFloat(PyFloat(ap_value).f).i)
                 ELSE FloatV(PyFloat(ap_value).f)
    /\ kind \in { "uppercase", "lowercase", "trim", "date" }
         => /\ ap_pc = "returned"
            /\ ap_result.val = StrV(Converted(kind, PyStr(ap_value)))

\* ---- C28
\* C28: when transform_data has returned for an input that has rows (for
\* one without rows transform_file raises at line 47), the header list
\* transform_file hands to the output writer names no column twice, and
\* its columns are exactly the keys of every transformed row.
C28_HeadersMatchRows ==
  (epc = "done" /\ data # << >>) =>
    /\ \A a, b \in DOMAIN target_headers :
         target_headers[a] = target_headers[b] => a = b
    /\ \A k \in DOMAIN transformed_data :
         DOMAIN transformed_data[k] = Range(target_headers)

\* ---- C29
\* C29: a file type detect_file_type has returned, other than None, is a
\* key of PARSER_MAP, and create_parser given it as the type hint returns
\* a parser.
C29_DetectedIsRegistered ==
  (df_pc = "returned" /\ detected # None) =>
    /\ detected[1] \in DOMAIN PARSER_MAP
    /\ create_parser(file_path, detected).exc = ""

\* ---- C30
\* C30: when compare_structures has returned for the column sets I and R,
\* exact_matches is I intersect R, input_only_columns is I minus R and
\* reference_only_columns is R minus I, so every column of either file is
\* in exactly one of the three.
C30_ThreeWayPartition ==
  cs_pc = "returned" =>
    LET I == Range(cs_input)
        R == Range(cs_reference)
    IN /\ comparison.exact_matches = I \cap R
       /\ comparison.input_only_columns = I \ R
       /\ comparison.reference_only_columns = R \ I
       /\ \A c \in I \cup R :
            Cardinality({ part \in { "exact_matches", "input_only_columns",
                                     "reference_only_columns" } :
                            c \in comparison[part] }) = 1

====
